---------------------------- MODULE Spec2Model ----------------------------
(***************************************************************************)
(* A model of the cahlang pipeline: Lexer (src/src/lexer.rs), Parser       *)
(* (src/src/parser.rs) and Interpreter (src/src/interpreter.rs).           *)
(*                                                                         *)
(* Text is a sequence of one-character strings.  A Rust index i (0-based)  *)
(* addresses element i+1 of the TLA+ sequence.  The lexer's cursor counts   *)
(* characters where it reads and bytes where it slices and tests for the   *)
(* end, and so does the model.                                             *)
(***************************************************************************)
EXTENDS Integers, Sequences, FiniteSets, TLC

VARIABLES
    phase,      \* which stage of run() is active
    lexer,      \* the Lexer struct
    parser,     \* the Parser struct
    parsed,     \* the Vec<Statement> parse() is building
    interp,     \* the Interpreter struct (env) and the frames it points into
    program,    \* the Vec<Statement> handed to interpret(), and the loop index
    out,        \* lines written to stdout by Print
    diags,      \* calls of the diagnostic collaborator, in order
    events      \* history: what the last top-level statement did inside its blocks

vars == <<phase, lexer, parser, parsed, interp, program, out, diags, events>>

----------------------------------------------------------------------------
(* Bounds of the model *)

\* longest source text, in characters, of the lexer specification
MaxSrcLen == 4

\* characters the source texts of the lexer specification are drawn from
LexAlphabet == {"1", "a", "\n", "(", ")", "\"", "+", "?", "{"}

\* longest token sequence, before the two sentinels, of the parser specification
MaxToks == 4

\* iterations of one while statement the model follows
MaxLoop == 3

\* longest program, in top-level statements, of the interpreter specification
MaxStmts == 3

\* most binary operators in one operand chain of the parser specification
MaxOps == 3

\* longest source text, in lines, of the pipeline specification
MaxLines == 2

\* token kinds the token sequences of the parser specification are drawn from
ParseKinds ==
    {"Number", "Identifier", "Plus", "Equal", "DollarLess", "BraceOpen",
     "BraceClose", "StatementEnd", "Offering"}

----------------------------------------------------------------------------
(* Generic helpers *)

\* the sequences over S of length at most n
SeqsUpTo(S, n) == UNION {[1..k -> S] : k \in 0..n}

Last(s) == s[Len(s)]

----------------------------------------------------------------------------
(* value.rs: the Value union.  Number holds an f64.  The model keeps an f64 *)
(* as the record [k, s, m, e]: k is "fin", "inf" or "nan", s the sign bit,  *)
(* and a finite value is (-1)^s * m * 2^e with m odd, or m zero and e = 0   *)
(* for the two zeros.  m is a natural number of any size, written as its   *)
(* limbs below 2^15, least significant first, the last one not zero.        *)

NoneV == [tag |-> "None"]
BoolV(b) == [tag |-> "Boolean", v |-> b]
StrV(s) == [tag |-> "String", v |-> s]
NumV(q) == [tag |-> "Number", v |-> q]

Limb == 2 ^ 15

\* a without its leading zero limbs
BTrim(a) ==
    IF a = <<>> \/ a[Len(a)] # 0 THEN a
    ELSE IF \A i \in 1..Len(a) : a[i] = 0 THEN <<>>
    ELSE SubSeq(a, 1, CHOOSE n \in 1..Len(a) :
                          a[n] # 0 /\ \A j \in (n + 1)..Len(a) : a[j] = 0)

RECURSIVE BFromNat(_)
BFromNat(n) == IF n = 0 THEN <<>> ELSE <<n % Limb>> \o BFromNat(n \div Limb)

BLimb(a, i) == IF 1 <= i /\ i <= Len(a) THEN a[i] ELSE 0

\* -1, 0 or 1 as a is below, equal to or above b
BCmp(a, b) ==
    IF Len(a) < Len(b) THEN -1
    ELSE IF Len(a) > Len(b) THEN 1
    ELSE IF a = b THEN 0
    ELSE LET i == CHOOSE i \in 1..Len(a) :
                      a[i] # b[i] /\ \A j \in (i + 1)..Len(a) : a[j] = b[j]
         IN  IF a[i] < b[i] THEN -1 ELSE 1

\* a + b: a carry enters limb i when a limb below overflows and every limb
\* between is full
BAdd(a, b) ==
    LET sum(i) == BLimb(a, i) + BLimb(b, i)
        carry(i) == IF \E j \in 1..(i - 1) :
                           /\ sum(j) >= Limb
                           /\ \A k \in (j + 1)..(i - 1) : sum(k) = Limb - 1
                    THEN 1 ELSE 0
    IN  IF a = <<>> THEN b
        ELSE IF b = <<>> THEN a
        ELSE BTrim([i \in 1..(1 + IF Len(a) > Len(b) THEN Len(a) ELSE Len(b)) |->
                      (sum(i) + carry(i)) % Limb])

\* a - b, for a at least b: a borrow leaves limb i when a limb below falls
\* short and every limb between is level
BSub(a, b) ==
    LET borrow(i) == IF \E j \in 1..(i - 1) :
                            /\ a[j] < BLimb(b, j)
                            /\ \A k \in (j + 1)..(i - 1) : a[k] = BLimb(b, k)
                     THEN 1 ELSE 0
    IN  IF b = <<>> THEN a
        ELSE BTrim([i \in 1..Len(a) |-> (a[i] - BLimb(b, i) - borrow(i) + Limb) % Limb])

\* a * k, for k up to 2^15: the low half of each limb product plus the high
\* half of the one below, carried as in BAdd
BMulSmall(a, k) ==
    LET sum(i) == ((BLimb(a, i) * k) % Limb) + ((BLimb(a, i - 1) * k) \div Limb)
        carry(i) == IF \E j \in 1..(i - 1) :
                           /\ sum(j) >= Limb
                           /\ \A n \in (j + 1)..(i - 1) : sum(n) = Limb - 1
                    THEN 1 ELSE 0
    IN  IF k = 0 \/ a = <<>> THEN <<>>
        ELSE IF k = 1 THEN a
        ELSE BTrim([i \in 1..(Len(a) + 1) |-> (sum(i) + carry(i)) % Limb])

\* a * 2^n
BShl(a, n) ==
    IF a = <<>> THEN <<>>
    ELSE [i \in 1..(n \div 15) |-> 0] \o BMulSmall(a, 2 ^ (n % 15))

\* a \div 2^n
BShr(a, n) ==
    LET d == n \div 15
        b == n % 15
    IN  IF d >= Len(a) THEN <<>>
        ELSE BTrim([i \in 1..(Len(a) - d) |->
                      (a[i + d] \div 2 ^ b) + (BLimb(a, i + d + 1) % 2 ^ b) * 2 ^ (15 - b)])

\* a times the limbs lo..hi of b, by halves
BMul(a, b) ==
    LET RECURSIVE span(_, _)
        span(lo, hi) ==
            IF lo > hi THEN <<>>
            ELSE IF lo = hi THEN BMulSmall(a, b[lo])
            ELSE BAdd(span(lo, (lo + hi) \div 2),
                      BShl(span((lo + hi) \div 2 + 1, hi), 15 * ((lo + hi) \div 2 + 1 - lo)))
    IN  IF a = <<>> \/ b = <<>> THEN <<>> ELSE span(1, Len(b))

\* the number of binary digits of a
BBitLen(a) ==
    IF a = <<>> THEN 0
    ELSE 15 * (Len(a) - 1) + CHOOSE n \in 1..15 : 2 ^ (n - 1) <= a[Len(a)] /\ a[Len(a)] < 2 ^ n

Min(x, y) == IF x < y THEN x ELSE y
Max(x, y) == IF x > y THEN x ELSE y

\* long division of an by bn, whose top bit is set: q holds the limbs of the
\* quotient found so far and r the rest; the next limb is at most two below
\* its estimate from the leading limbs
RECURSIVE BDivLoop(_, _, _, _, _)
BDivLoop(an, bn, s, q, r) ==
    LET step(r1, d) == BDivLoop(an, bn, s, <<d>> \o q, BSub(r1, BMulSmall(bn, d)))
        limb(r1, est) == step(r1, CHOOSE d \in {est - 2, est - 1, est} :
                                      /\ d >= 0
                                      /\ BCmp(BMulSmall(bn, d), r1) <= 0
                                      /\ BCmp(BMulSmall(bn, d + 1), r1) > 0)
        next(r1) == limb(r1, Min(Limb - 1, (BLimb(r1, Len(bn) + 1) * Limb
                                             + BLimb(r1, Len(bn))) \div bn[Len(bn)]))
    IN  IF Len(q) = Len(an) THEN [q |-> BTrim(q), r |-> BShr(r, s)]
        ELSE next(BTrim(<<an[Len(an) - Len(q)]>> \o r))

\* quotient q and remainder r of a by b (b not zero)
\* the first Len(bn) - 1 limbs of the dividend give no quotient: the loop
\* starts behind them
BDivMod(a, b) ==
    LET from(an, bn, s, k) ==
            BDivLoop(an, bn, s, IF k = 0 THEN <<>> ELSE [i \in 1..k |-> 0],
                     BTrim(SubSeq(an, Len(an) - k + 1, Len(an))))
        by(an, bn, s) == from(an, bn, s, Min(Len(bn) - 1, Len(an)))
        shifted(s) == by(BShl(a, s), BShl(b, s), s)
    IN  shifted(15 - BBitLen(<<b[Len(b)]>>))

RECURSIVE BPow10(_)
BPow10(n) == IF n = 0 THEN <<1>>
             ELSE IF n % 2 = 1 THEN BMulSmall(BPow10(n - 1), 10)
             ELSE BMul(BPow10(n \div 2), BPow10(n \div 2))

\* f64: 53 binary digits, the last place of the smallest values being 2^-1074,
\* the values from 2^1024 on being infinite
MantissaDigits == 53
MinExp == -1074
MaxExp == 1024

NaN == [k |-> "nan", s |-> 0, m |-> <<>>, e |-> 0]
FInf(s) == [k |-> "inf", s |-> s, m |-> <<>>, e |-> 0]
FZero(s) == [k |-> "fin", s |-> s, m |-> <<>>, e |-> 0]

IsZero(a) == a.k = "fin" /\ a.m = <<>>

\* (-1)^s * n * 2^e with the factors of two moved from n into e
RECURSIVE FCanon(_, _, _)
FCanon(s, n, e) ==
    IF n = <<>> THEN FZero(s)
    ELSE IF n[1] = 0 THEN FCanon(s, Tail(n), e + 15)
    ELSE LET tz == CHOOSE t \in 0..14 : n[1] % 2 ^ t = 0 /\ n[1] % 2 ^ (t + 1) # 0
         IN  [k |-> "fin", s |-> s, m |-> BShr(n, tz), e |-> e + tz]

\* the f64 nearest to (-1)^s * (n + f) * 2^e, ties to the even mantissa, where
\* 0 <= f < 1 and sticky tells that f is not 0 (n then has 55 digits or more)
FRound(s, n, e, sticky) ==
    LET \* the digits of n that no f64 of this size holds
        shift == Max(BBitLen(n) - MantissaDigits, MinExp - e)
        \* r * 2^(e + by), infinite from 2^MaxExp on
        fit(r, by) == IF BBitLen(r) + e + by > MaxExp THEN FInf(s)
                      ELSE FCanon(s, r, e + by)
        \* q: n without its last shift digits; half: those digits against 1/2
        rounded(q, half) ==
            fit(IF half > 0 \/ (half = 0 /\ (sticky \/ BLimb(q, 1) % 2 = 1))
                THEN BAdd(q, <<1>>)
                ELSE q, shift)
    IN  IF n = <<>> THEN FZero(s)
        ELSE IF shift <= 0 THEN fit(n, 0)
        ELSE rounded(BShr(n, shift),
                     BCmp(BSub(n, BShl(BShr(n, shift), shift)), BShl(<<1>>, shift - 1)))

\* the f64 nearest to (-1)^s * (n / t) * 2^e, for t not zero: the quotient to
\* 55 binary digits, give or take one, and whether it is inexact
FRatio(s, n, t, e) ==
    LET k == BBitLen(t) + 55 - BBitLen(n)
        divided(d) == FRound(s, d.q, e - k, d.r # <<>>)
    IN  divided(BDivMod(BShl(n, Max(k, 0)), BShl(t, Max(-k, 0))))

\* the f64 of a small integer
IntQ(n) == IF n < 0 THEN FCanon(1, BFromNat(-n), 0) ELSE FCanon(0, BFromNat(n), 0)

\* n / 2
Half(n) == IF n < 0 THEN FCanon(1, BFromNat(-n), -1) ELSE FCanon(0, BFromNat(n), -1)

\* -x
QNeg(a) == IF a.k = "nan" THEN a ELSE [a EXCEPT !.s = 1 - @]

\* the magnitudes of two finite values over their common exponent
Aligned(a, b) ==
    LET e == IF a.e < b.e THEN a.e ELSE b.e
    IN  [a |-> BShl(a.m, a.e - e), b |-> BShl(b.m, b.e - e), e |-> e]

\* x + y
QAdd(a, b) ==
    LET \* c: the magnitude of a against that of b
        sum(x, c) ==
            IF a.s # b.s /\ c = 0 THEN FZero(0)
            ELSE FRound(IF a.s = b.s \/ c > 0 THEN a.s ELSE b.s,
                        IF a.s = b.s THEN BAdd(x.a, x.b)
                        ELSE IF c > 0 THEN BSub(x.a, x.b)
                        ELSE BSub(x.b, x.a),
                        x.e, FALSE)
        aligned(x) == sum(x, BCmp(x.a, x.b))
    IN  IF a.k = "nan" \/ b.k = "nan" THEN NaN
        ELSE IF a.k = "inf" THEN (IF b.k = "inf" /\ b.s # a.s THEN NaN ELSE a)
        ELSE IF b.k = "inf" THEN b
        ELSE IF IsZero(a) /\ IsZero(b) THEN FZero(IF a.s = 1 /\ b.s = 1 THEN 1 ELSE 0)
        ELSE IF IsZero(a) THEN b
        ELSE IF IsZero(b) THEN a
        ELSE aligned(Aligned(a, b))

\* x - y
QSub(a, b) == QAdd(a, QNeg(b))

\* x * y
QMul(a, b) ==
    LET s == (a.s + b.s) % 2
    IN  IF a.k = "nan" \/ b.k = "nan" THEN NaN
        ELSE IF a.k = "inf" \/ b.k = "inf"
        THEN (IF IsZero(a) \/ IsZero(b) THEN NaN ELSE FInf(s))
        ELSE IF IsZero(a) \/ IsZero(b) THEN FZero(s)
        ELSE FRound(s, BMul(a.m, b.m), a.e + b.e, FALSE)

\* x / y
QDiv(a, b) ==
    LET s == (a.s + b.s) % 2
    IN  IF a.k = "nan" \/ b.k = "nan" THEN NaN
        ELSE IF a.k = "inf" THEN (IF b.k = "inf" THEN NaN ELSE FInf(s))
        ELSE IF b.k = "inf" THEN FZero(s)
        ELSE IF IsZero(b) THEN (IF IsZero(a) THEN NaN ELSE FInf(s))
        ELSE IF IsZero(a) THEN FZero(s)
        ELSE FRatio(s, a.m, b.m, a.e - b.e)

\* x < y
QLess(a, b) ==
    LET below(mag) == IF a.s # b.s THEN a.s = 1
                      ELSE IF a.s = 0 THEN mag < 0
                      ELSE mag > 0
        aligned(x) == below(BCmp(x.a, x.b))
    IN  IF a.k = "nan" \/ b.k = "nan" THEN FALSE
        ELSE IF IsZero(a) /\ IsZero(b) THEN FALSE
        ELSE IF a.k = "inf" THEN below(IF b.k = "inf" THEN 0 ELSE 1)
        ELSE IF b.k = "inf" THEN below(-1)
        ELSE aligned(Aligned(a, b))

\* x == y
QEq(a, b) ==
    IF a.k = "nan" \/ b.k = "nan" THEN FALSE
    ELSE IF IsZero(a) /\ IsZero(b) THEN TRUE
    ELSE a = b

----------------------------------------------------------------------------
(* token.rs / lexer.rs *)

Token(token_type, lexeme, literal, line) ==
    [token_type |-> token_type, lexeme |-> lexeme, literal |-> literal, line |-> line]

Digits == {"0", "1", "2", "3", "4", "5", "6", "7", "8", "9"}
Letters == {"A", "B", "C", "D", "E", "F", "G", "H", "I", "J", "K", "L", "M",
            "N", "O", "P", "Q", "R", "S", "T", "U", "V", "W", "X", "Y", "Z",
            "a", "b", "c", "d", "e", "f", "g", "h", "i", "j", "k", "l", "m",
            "n", "o", "p", "q", "r", "s", "t", "u", "v", "w", "x", "y", "z"}

is_ascii_digit(ch) == ch \in Digits
is_ascii_alphanumeric(ch) == ch \in Digits \cup Letters
alphanumeric_or_underscore(ch) == ch = "_" \/ is_ascii_alphanumeric(ch)

KEYWORDS(text) ==
    CASE text = <<"a","n","d">> -> "And"
      [] text = <<"c","l","a","s","s">> -> "Class"
      [] text = <<"e","l","s","e">> -> "Else"
      [] text = <<"f","a","l","s","e">> -> "False"
      [] text = <<"t","r","u","e">> -> "True"
      [] text = <<"f","o","r">> -> "For"
      [] text = <<"i","f">> -> "If"
      [] text = <<"n","o","n","e">> -> "None"
      [] text = <<"o","r">> -> "Or"
      [] text = <<"i","s">> -> "Is"
      [] text = <<"n","o","t">> -> "Not"
      [] text = <<"r","e","t","u","r","n">> -> "Return"
      [] text = <<"s","u","p","e","r">> -> "Super"
      [] text = <<"t","h","i","s">> -> "This"
      [] text = <<"o","f","f","e","r","i","n","g">> -> "Offering"
      [] text = <<"r","i","t","u","a","l">> -> "Ritual"
      [] text = <<"e","n","d">> -> "End"
      [] text = <<"w","h","i","l","e">> -> "While"
      [] OTHER -> "Identifier"

\* A character outside ASCII is written by its code point.  str::len() counts
\* bytes of the UTF-8 encoding, chars().nth() counts characters.
Utf8Len(ch) ==
    CASE ch = "U+E9" -> 2       \* e with acute accent
      [] ch = "U+20AC" -> 3     \* the euro sign
      [] OTHER -> 1

RECURSIVE ByteLen(_)
ByteLen(text) == IF text = <<>> THEN 0 ELSE Utf8Len(text[1]) + ByteLen(Tail(text))

\* the byte offset at which character i (from 1) starts; i = Len + 1 gives len()
ByteOffset(text, i) == ByteLen(SubSeq(text, 1, i - 1))

is_char_boundary(text, x) == \E i \in 1..(Len(text) + 1) : ByteOffset(text, i) = x

\* &text[a..b]: a panic ("PANIC") unless a <= b <= len() and both are
\* character boundaries, otherwise the characters lying in those bytes
ByteSlice(text, a, b) ==
    IF a > b \/ ~is_char_boundary(text, a) \/ ~is_char_boundary(text, b) THEN "PANIC"
    ELSE LET first == CHOOSE i \in 1..(Len(text) + 1) : ByteOffset(text, i) = a
             next == CHOOSE i \in 1..(Len(text) + 1) : ByteOffset(text, i) = b
         IN  SubSeq(text, first, next - 1)

\* The Lexer struct, and three fields that are not part of it: build, the
\* build profile ("debug" aborts when unwrap_unchecked meets None, "release"
\* goes on); heap, the characters the bytes behind the source text decode to,
\* which the release build reads when the text has no character at the index;
\* and st, "panic" once the process has aborted or panicked.
LexerNew(source) ==
    [source |-> source, tokens |-> <<>>, start |-> 0, current |-> 0,
     line |-> 0, ignore_newline |-> FALSE, build |-> "debug", heap |-> <<>>,
     st |-> "ok"]

Dead(L) == [L EXCEPT !.st = "panic"]

at_end(L) == L.current >= ByteLen(L.source)

\* self.source.chars().nth(i).unwrap_unchecked(): undefined behaviour when the
\* text has no character i.  "ABORT" stands for the abort of the debug build.
\* The release build decodes what lies behind the text: character i - Len of
\* the heap, or the invalid char value U+110000, written "INVALID", when the
\* read is taken as the None it is.
CharUnchecked(L, i) ==
    IF i < Len(L.source) THEN L.source[i + 1]
    ELSE IF L.build = "debug" THEN "ABORT"
    ELSE IF i - Len(L.source) < Len(L.heap) THEN L.heap[i - Len(L.source) + 1]
    ELSE "INVALID"

get_current_char_unchecked(L) == CharUnchecked(L, L.current)

\* '\0' is written "NUL"
peek(L) == IF at_end(L) THEN "NUL" ELSE get_current_char_unchecked(L)

peekpeek(L) ==
    IF L.current + 1 >= ByteLen(L.source) THEN "NUL" ELSE CharUnchecked(L, L.current + 1)

\* next_char has no guard of its own
next_char(L) ==
    IF get_current_char_unchecked(L) = "ABORT" THEN Dead(L)
    ELSE [L EXCEPT !.current = @ + 1]

\* self.source[self.start..self.current]
Lexeme(L) == ByteSlice(L.source, L.start, L.current)

add_token_literal(L, token_type, literal) ==
    IF L.st # "ok" THEN L
    ELSE IF Lexeme(L) = "PANIC" THEN Dead(L)
    ELSE [L EXCEPT !.tokens = Append(@, Token(token_type, Lexeme(L), literal, L.line))]

add_token(L, token_type) == add_token_literal(L, token_type, NoneV)

\* matches_next yields its boolean and the lexer it leaves: the cursor one
\* further on a match, the process gone when peek aborts
matches_next(L, ch) ==
    IF at_end(L) THEN [hit |-> FALSE, L |-> L]
    ELSE IF peek(L) = "ABORT" THEN [hit |-> FALSE, L |-> Dead(L)]
    ELSE IF peek(L) # ch THEN [hit |-> FALSE, L |-> L]
    ELSE [hit |-> TRUE, L |-> [L EXCEPT !.current = @ + 1]]

\* while self.peek() != '"' && !self.at_end() { count newlines; next_char }
RECURSIVE StringBody(_)
StringBody(L) ==
    IF L.st # "ok" THEN L
    ELSE IF peek(L) = "ABORT" THEN Dead(L)
    ELSE IF peek(L) # "\"" /\ ~at_end(L)
    THEN StringBody(next_char([L EXCEPT !.line = IF peek(L) = "\n" THEN @ + 1 ELSE @]))
    ELSE L

\* The heaps a call of lex_token can meet in the release build when it reads
\* a character the text does not have: the bytes behind the text belong to
\* the allocator and to later allocations, and any of them can follow.  There
\* is one character for every byte by which the text is longer than its count
\* of characters: no read goes further.  A character is any of the 128 of
\* ASCII (the grave accent and the controls other than NUL, tab, line feed
\* and carriage return are written by code point), a character of two or of
\* three bytes, or the invalid char value when the bytes are taken as the
\* None they stand for.  No arm of lex_token, no loop and no matches_next
\* names a character beyond ASCII, so "U+E9" and "U+20AC" stand for all of
\* them.
Heaps(L) ==
    LET controls == {"NUL", "\t", "\n", "\r",
                     "U+1", "U+2", "U+3", "U+4", "U+5", "U+6", "U+7", "U+8", "U+B",
                     "U+C", "U+E", "U+F", "U+10", "U+11", "U+12", "U+13", "U+14",
                     "U+15", "U+16", "U+17", "U+18", "U+19", "U+1A", "U+1B", "U+1C",
                     "U+1D", "U+1E", "U+1F", "U+7F"}
        marks == {" ", "!", "\"", "#", "$", "%", "&", "'", "(", ")", "*", "+", ",",
                  "-", ".", "/", ":", ";", "<", "=", ">", "?", "@", "[", "\\", "]",
                  "^", "_", "U+60", "{", "|", "}", "~"}
    IN  IF L.build = "release" /\ ByteLen(L.source) > Len(L.source)
        THEN [1..(ByteLen(L.source) - Len(L.source)) ->
                  controls \cup marks \cup Digits \cup Letters
                      \cup {"U+E9", "U+20AC", "INVALID"}]
        ELSE {<<>>}

\* A lexer step yields the lexer and the diagnostics it reported.
LexOut(L, rep) == [L |-> L, rep |-> rep]
Report(line, msg) == [line |-> line, msg |-> msg]

\* the String token of handle_string, its literal being
\* self.source[self.start + 1..self.current - 1]
StringToken(L) ==
    LET literal == ByteSlice(L.source, L.start + 1, L.current - 1)
    IN  IF literal = "PANIC" THEN Dead(L)
        ELSE add_token_literal(L, "String", StrV(literal))

handle_string(L) ==
    LET L1 == StringBody(L)
    IN  IF L1.st # "ok" THEN LexOut(L1, <<>>)
        ELSE IF at_end(L1)
        THEN LexOut(L1, <<Report(L1.line, "Unterminated string.")>>)
        ELSE LexOut(StringToken(next_char(L1)), <<>>)

RECURSIVE DigitRun(_)
DigitRun(L) ==
    IF L.st # "ok" THEN L
    ELSE IF peek(L) = "ABORT" THEN Dead(L)
    ELSE IF is_ascii_digit(peek(L)) THEN DigitRun(next_char(L)) ELSE L

DigitVal(ch) == CHOOSE k \in 0..9 : ch = <<"0","1","2","3","4","5","6","7","8","9">>[k + 1]

\* str::parse::<f64>: an optional sign, then "inf", "infinity" or "nan" in
\* either case, or digits with one point at most and one digit at least and
\* an optional exponent, e or E, an optional sign and digits.  The value is
\* the f64 nearest to the decimal number; anything else is an error.
ParseF64(text) ==
    LET s == IF text # <<>> /\ text[1] = "-" THEN 1 ELSE 0
        body == IF text # <<>> /\ text[1] \in {"+", "-"} THEN Tail(text) ELSE text
        lower(ch) == CASE ch = "I" -> "i" [] ch = "N" -> "n" [] ch = "F" -> "f"
                       [] ch = "A" -> "a" [] ch = "T" -> "t" [] ch = "Y" -> "y"
                       [] OTHER -> ch
        parts(b) ==
            LET mark == IF \E i \in 1..Len(b) : b[i] \in {"e", "E"}
                        THEN CHOOSE i \in 1..Len(b) :
                                 /\ b[i] \in {"e", "E"}
                                 /\ \A j \in 1..(i - 1) : b[j] \notin {"e", "E"}
                        ELSE Len(b) + 1
            IN  [mant |-> SubSeq(b, 1, mark - 1),
                 scaled |-> mark <= Len(b),
                 down |-> mark < Len(b) /\ b[mark + 1] = "-",
                 exp |-> SubSeq(b, IF mark < Len(b) /\ b[mark + 1] \in {"+", "-"}
                                   THEN mark + 2 ELSE mark + 1, Len(b))]
        decimal(p) ==
            LET point == IF \E i \in 1..Len(p.mant) : p.mant[i] = "."
                         THEN CHOOSE i \in 1..Len(p.mant) : p.mant[i] = "."
                         ELSE Len(p.mant) + 1
                RECURSIVE digits(_, _, _)
                digits(ds, lo, hi) ==
                    IF lo > hi THEN <<>>
                    ELSE IF lo = hi THEN BFromNat(DigitVal(ds[lo]))
                    ELSE BAdd(BMul(digits(ds, lo, (lo + hi) \div 2), BPow10(hi - (lo + hi) \div 2)),
                              digits(ds, (lo + hi) \div 2 + 1, hi))
                number(ds) == digits(ds, 1, Len(ds))
                RECURSIVE exponent(_, _)
                exponent(i, x) ==
                    IF i > Len(p.exp) THEN x
                    ELSE exponent(i + 1, Min(x * 10 + DigitVal(p.exp[i]), 100000))
                value(n, x) ==
                    IF n = <<>> THEN FZero(s)
                    ELSE IF x > 310 THEN FInf(s)
                    ELSE IF x < -(Len(p.mant) + 330) THEN FZero(s)
                    ELSE FRatio(s, BMul(n, BPow10(Max(x, 0))), BPow10(Max(-x, 0)), 0)
            IN  IF /\ \A i \in 1..Len(p.mant) : i = point \/ is_ascii_digit(p.mant[i])
                   /\ \E i \in 1..Len(p.mant) : is_ascii_digit(p.mant[i])
                   /\ p.scaled => /\ p.exp # <<>>
                                   /\ \A i \in 1..Len(p.exp) : is_ascii_digit(p.exp[i])
                THEN [ok |-> TRUE,
                      val |-> value(number(SelectSeq(p.mant, is_ascii_digit)),
                                    (IF p.down THEN -exponent(1, 0) ELSE exponent(1, 0))
                                    - (IF point > Len(p.mant) THEN 0 ELSE Len(p.mant) - point))]
                ELSE [ok |-> FALSE, val |-> NaN]
        named(w) ==
            IF w = <<"n", "a", "n">> THEN [ok |-> TRUE, val |-> NaN]
            ELSE IF w \in {<<"i", "n", "f">>, <<"i", "n", "f", "i", "n", "i", "t", "y">>}
            THEN [ok |-> TRUE, val |-> FInf(s)]
            ELSE decimal(parts(body))
    IN  named([i \in 1..Len(body) |-> lower(body[i])])

handle_number(L) ==
    LET L1 == DigitRun(L)
        L2 == IF L1.st # "ok" THEN L1
              ELSE IF peek(L1) = "." /\ peekpeek(L1) = "ABORT" THEN Dead(L1)
              ELSE IF peek(L1) = "." /\ is_ascii_digit(peekpeek(L1))
              THEN DigitRun(next_char(L1))
              ELSE L1
        text == Lexeme(L2)
    IN  IF L2.st # "ok" THEN LexOut(L2, <<>>)
        ELSE IF text = "PANIC" THEN LexOut(Dead(L2), <<>>)
        ELSE IF ParseF64(text).ok
        THEN LexOut(add_token_literal(L2, "Number", NumV(ParseF64(text).val)), <<>>)
        ELSE LexOut(L2, <<Report(L2.line, "Could not parse number!")>>)

RECURSIVE IdentRun(_)
IdentRun(L) ==
    IF L.st # "ok" THEN L
    ELSE IF peek(L) = "ABORT" THEN Dead(L)
    ELSE IF alphanumeric_or_underscore(peek(L)) THEN IdentRun(next_char(L)) ELSE L

handle_identifier(L) ==
    LET L1 == IdentRun(L)
    IN  IF L1.st # "ok" \/ Lexeme(L1) = "PANIC" THEN Dead(L1)
        ELSE add_token(L1, KEYWORDS(Lexeme(L1)))

STMT_END_TOKENS ==
    {"BraceClose", "ParenClose", "SquareClose", "True", "False", "Number",
     "String", "None", "End", "Identifier"}

is_maybe_stmt_end(test_type) == test_type \in STMT_END_TOKENS

RECURSIVE SkipComment(_)
SkipComment(L) ==
    IF L.st # "ok" THEN L
    ELSE IF peek(L) = "ABORT" THEN Dead(L)
    ELSE IF peek(L) # "\n" /\ ~at_end(L) THEN SkipComment(next_char(L)) ELSE L

\* the '\n' arm of lex_token
NewlineArm(L) ==
    LET L1 == [L EXCEPT !.line = @ + 1]
    IN  IF ~L1.ignore_newline
        THEN IF Len(L1.tokens) = 0 THEN L1
             ELSE IF is_maybe_stmt_end(Last(L1.tokens).token_type)
                  THEN add_token(L1, "StatementEnd")
                  ELSE L1
        ELSE L1

\* the arms of lex_token that look at the character after next
TwoCharArm(next, L) ==
    LET one(a, ta, none) ==
            IF a.L.st # "ok" THEN a.L
            ELSE IF a.hit THEN add_token(a.L, ta)
            ELSE none
        either(a, ta, b, tb, none) == one(a, ta, one(b, tb, none))
    IN  CASE next = "-" ->
                either(matches_next(L, "-"), "MinusMinus",
                       matches_next(L, "="), "MinusEqual", add_token(L, "Minus"))
          [] next = "+" ->
                either(matches_next(L, "+"), "PlusPlus",
                       matches_next(L, "="), "PlusEqual", add_token(L, "Plus"))
          [] next = "$" ->
                either(matches_next(L, ">"), "DollarGreater",
                       matches_next(L, "<"), "DollarLess", L)
          [] next = "<" ->
                one(matches_next(L, "="), "LessEqual", add_token(L, "Less"))
          [] next = ">" ->
                one(matches_next(L, "="), "GreaterEqual", add_token(L, "Greater"))

\* lex_token: L0 is the lexer with start = current, before next_char
lex_token(L0) ==
    LET next == get_current_char_unchecked(L0)
        L == next_char(L0)
        plain(X) == LexOut(X, <<>>)
    IN  CASE next = "ABORT" -> plain(L)
          [] next = "?" -> plain(SkipComment(L))
          [] next \in {" ", "\r", "\t"} -> plain(L)
          [] next = "\n" -> plain(NewlineArm(L))
          [] next = "(" -> plain([add_token(L, "ParenOpen") EXCEPT !.ignore_newline = TRUE])
          [] next = ")" -> plain([add_token(L, "ParenClose") EXCEPT !.ignore_newline = FALSE])
          [] next = "[" -> plain([add_token(L, "SquareOpen") EXCEPT !.ignore_newline = TRUE])
          [] next = "]" -> plain([add_token(L, "SquareClose") EXCEPT !.ignore_newline = FALSE])
          [] next = "{" -> plain(add_token(L, "BraceOpen"))
          [] next = "}" -> plain(add_token(L, "BraceClose"))
          [] next = "," -> plain(add_token(L, "Comma"))
          [] next = "." -> plain(add_token(L, "Dot"))
          [] next \in {"-", "+", "$", "<", ">"} -> plain(TwoCharArm(next, L))
          [] next = "*" -> plain(add_token(L, "Multiply"))
          [] next = "/" -> plain(add_token(L, "Divide"))
          [] next = "=" -> plain(add_token(L, "Equal"))
          [] next = "\"" -> handle_string(L)
          [] OTHER ->
                IF is_ascii_digit(next) THEN handle_number(L)
                ELSE IF is_ascii_alphanumeric(next) THEN plain(handle_identifier(L))
                ELSE plain(L)

\* the two sentinels lex() pushes after its loop
LexSentinels(L) ==
    <<Token("StatementEnd", <<"StatementEnd">>, NoneV, L.line),
      Token("EOF", <<"EOF">>, NoneV, L.line)>>


----------------------------------------------------------------------------
(* expression.rs / statement.rs: the syntax tree.  Option<T> is a sequence *)
(* of length 0 (None) or 1 (Some).                                         *)

NoneOpt == <<>>
Some(x) == <<x>>

Literal(value) == [kind |-> "Literal", value |-> value]
Grouping(expr) == [kind |-> "Grouping", expr |-> expr]
Unary(operator, right) == [kind |-> "Unary", operator |-> operator, right |-> right]
Binary(left, operator, right) ==
    [kind |-> "Binary", left |-> left, operator |-> operator, right |-> right]
Logical(left, operator, right) ==
    [kind |-> "Logical", left |-> left, operator |-> operator, right |-> right]
Variable(name) == [kind |-> "Variable", name |-> name]
Assign(name, value) == [kind |-> "Assign", name |-> name, value |-> value]
Postfix(left, operator) == [kind |-> "Postfix", left |-> left, operator |-> operator]

ExpressionStatement(expr) == [kind |-> "Expression", expr |-> expr]
PrintStatement(expr) == [kind |-> "Print", expr |-> expr]
VarStatement(name, initializer) ==
    [kind |-> "Var", name |-> name, initializer |-> initializer]
BlockStatement(stmts) == [kind |-> "Block", statements |-> stmts]
IfStatement(condition, then_branch, else_branch) ==
    [kind |-> "If", condition |-> condition, then_branch |-> then_branch,
     else_branch |-> else_branch]
WhileStatement(condition, body) ==
    [kind |-> "While", condition |-> condition, body |-> body]

\* the statement handle_declaration substitutes for a failed one
NoOpStatement == ExpressionStatement(Literal(NoneV))

----------------------------------------------------------------------------
(* parser.rs.  The Peekable token iterator is the token vector and the     *)
(* number of tokens already taken from it.  A parser operator works on the *)
(* Parser struct extended by rep, the diagnostics reported so far, and     *)
(* yields st: "ok" (Ok), "err" (Err), "panic" (an unwrap of None) or       *)
(* "hang" (a loop whose body changes nothing and whose guard stays true).  *)

ParserNew(tokens) == [tokens |-> tokens, pos |-> 0, last_token |-> NoneOpt]

WithRep(P) ==
    [tokens |-> P.tokens, pos |-> P.pos, last_token |-> P.last_token, rep |-> <<>>]
WithoutRep(P) == [tokens |-> P.tokens, pos |-> P.pos, last_token |-> P.last_token]

PRes(st, P, node) == [st |-> st, P |-> P, node |-> node]

\* self.tokens.peek() is None
Exhausted(P) == P.pos >= Len(P.tokens)

\* peek(): the unwrap is the caller's to guard (see synchronize)
Parser_peek(P) == P.tokens[P.pos + 1]

Parser_at_end(P) == Parser_peek(P).token_type = "EOF"

check(P, typ) == IF Parser_at_end(P) THEN FALSE ELSE Parser_peek(P).token_type = typ

previous(P) == P.last_token[1]

advance(P) == [P EXCEPT !.pos = @ + 1, !.last_token = Some(Parser_peek(P))]

\* match_next(types) is true, and then advances, when some type passes check
match_next(P, types) == \E typ \in types : check(P, typ)

Parser_error(P, token, msg) ==
    PRes("err", [P EXCEPT !.rep = Append(@, Report(token.line, msg))], NoneOpt)

synchronize(P) ==
    LET P1 == advance(P)
    IN  IF Exhausted(P1) THEN PRes("panic", P1, NoneOpt)
        ELSE IF Parser_at_end(P1) THEN PRes("ok", P1, NoneOpt)
        ELSE IF previous(P1).token_type = "StatementEnd" THEN PRes("ok", P1, NoneOpt)
        ELSE IF Parser_peek(P1).token_type = "StatementEnd"
             THEN PRes("ok", advance(P1), NoneOpt)
        ELSE PRes("hang", P1, NoneOpt)

consume_if(P, token_type, err_msg) ==
    IF check(P, token_type) THEN PRes("ok", advance(P), Parser_peek(P))
    ELSE Parser_error(P, Parser_peek(P), err_msg)

\* The grammar's operators call one another through Call, which dispatches
\* on the operator's name; arg is the second parameter of the loop operators.
RECURSIVE Call(_, _, _)


handle_primary(P) ==
    IF match_next(P, {"Identifier"})
    THEN PRes("ok", advance(P), Variable(Parser_peek(P)))
    ELSE IF match_next(P, {"False"})
    THEN PRes("ok", advance(P), Literal(BoolV(FALSE)))
    ELSE IF match_next(P, {"True"})
    THEN PRes("ok", advance(P), Literal(BoolV(TRUE)))
    ELSE IF match_next(P, {"None"})
    THEN PRes("ok", advance(P), Literal(NoneV))
    ELSE IF match_next(P, {"Number", "String"})
    THEN PRes("ok", advance(P), Literal(Parser_peek(P).literal))
    ELSE IF match_next(P, {"ParenOpen"})
    THEN LET r == Call("handle_expression", <<>>, advance(P))
         IN  IF r.st # "ok" THEN r
             ELSE LET c == consume_if(r.P, "ParenClose", "Expected ')' after expression.")
                  IN  IF c.st # "ok" THEN c
                      ELSE PRes("ok", c.P, Grouping(r.node))
    ELSE Parser_error(P, Parser_peek(P), "Expected an expression.")

handle_unary(P) ==
    IF match_next(P, {"Not", "Minus"})
    THEN LET operator == Parser_peek(P)
             r == Call("handle_unary", <<>>, advance(P))
         IN  IF r.st # "ok" THEN r
             ELSE PRes("ok", r.P, Unary(operator, r.node))
    ELSE Call("handle_primary", <<>>, P)

FactorLoop(P, expr) ==
    IF match_next(P, {"Divide", "Multiply"})
    THEN LET operator == Parser_peek(P)
             r == Call("handle_unary", <<>>, advance(P))
         IN  IF r.st # "ok" THEN r
             ELSE Call("FactorLoop", Binary(expr, operator, r.node), r.P)
    ELSE PRes("ok", P, expr)

handle_factor(P) ==
    LET r == Call("handle_unary", <<>>, P)
    IN  IF r.st # "ok" THEN r ELSE Call("FactorLoop", r.node, r.P)

\* the loop of handle_term as it would be if the right operand were a whole term
TermLoop_right_assoc(P, expr) ==
    IF match_next(P, {"Minus", "Plus"})
    THEN LET operator == Parser_peek(P)
             r == Call("handle_term", <<>>, advance(P))
         IN  IF r.st # "ok" THEN r
             ELSE PRes("ok", r.P, Binary(expr, operator, r.node))
    ELSE PRes("ok", P, expr)

TermLoop(P, expr) ==
    IF match_next(P, {"Minus", "Plus"})
    THEN LET operator == Parser_peek(P)
             r == Call("handle_factor", <<>>, advance(P))
         IN  IF r.st # "ok" THEN r
             ELSE Call("TermLoop", Binary(expr, operator, r.node), r.P)
    ELSE PRes("ok", P, expr)

handle_term(P) ==
    LET r == Call("handle_factor", <<>>, P)
    IN  IF r.st # "ok" THEN r ELSE Call("TermLoop", r.node, r.P)

ComparisonLoop(P, expr) ==
    IF match_next(P, {"Greater", "GreaterEqual", "Less", "LessEqual"})
    THEN LET operator == Parser_peek(P)
             r == Call("handle_term", <<>>, advance(P))
         IN  IF r.st # "ok" THEN r
             ELSE Call("ComparisonLoop", Binary(expr, operator, r.node), r.P)
    ELSE PRes("ok", P, expr)

handle_comparison(P) ==
    LET r == Call("handle_term", <<>>, P)
    IN  IF r.st # "ok" THEN r ELSE Call("ComparisonLoop", r.node, r.P)

EqualityLoop(P, expr) ==
    IF match_next(P, {"Is", "Not"})
    THEN LET operator == Parser_peek(P)
             r == Call("handle_comparison", <<>>, advance(P))
         IN  IF r.st # "ok" THEN r
             ELSE Call("EqualityLoop", Binary(expr, operator, r.node), r.P)
    ELSE PRes("ok", P, expr)

handle_equality(P) ==
    LET r == Call("handle_comparison", <<>>, P)
    IN  IF r.st # "ok" THEN r ELSE Call("EqualityLoop", r.node, r.P)

\* handle_assignment as it would be if an invalid target were an Err
handle_assignment_hard_error(P) ==
    LET l == Call("handle_equality", <<>>, P)
    IN  IF l.st # "ok" THEN l
        ELSE IF match_next(l.P, {"Equal"})
        THEN LET equals == Parser_peek(l.P)
                 r == Call("handle_assignment", <<>>, advance(l.P))
             IN  IF r.st # "ok" THEN r
                 ELSE IF l.node.kind = "Variable"
                 THEN PRes("ok", r.P, Assign(l.node.name, r.node))
                 ELSE Parser_error(r.P, equals, "Invalid assignment target.")
        ELSE l

handle_assignment(P) ==
    LET l == Call("handle_equality", <<>>, P)
    IN  IF l.st # "ok" THEN l
        ELSE IF match_next(l.P, {"Equal"})
        THEN LET equals == Parser_peek(l.P)
                 r == Call("handle_assignment", <<>>, advance(l.P))
             IN  IF r.st # "ok" THEN r
                 ELSE IF l.node.kind = "Variable"
                 THEN PRes("ok", r.P, Assign(l.node.name, r.node))
                 \* Dont throw, just report
                 ELSE PRes("ok", Parser_error(r.P, equals, "Invalid assignment target.").P,
                           l.node)
        ELSE l

handle_expression(P) == Call("handle_assignment", <<>>, P)

handle_print_statement(P) ==
    LET r == Call("handle_expression", <<>>, P)
    IN  IF r.st # "ok" THEN r
        ELSE LET c == consume_if(r.P, "StatementEnd",
                                 "Expected statement end after expression.")
             IN  IF c.st # "ok" THEN c
                 ELSE PRes("ok", c.P, PrintStatement(r.node))

handle_expression_statement(P) ==
    LET r == Call("handle_expression", <<>>, P)
    IN  IF r.st # "ok" THEN r
        ELSE LET c == consume_if(r.P, "StatementEnd",
                                 "Expected statement end after expression.")
             IN  IF c.st # "ok" THEN c
                 ELSE PRes("ok", c.P, ExpressionStatement(r.node))

BlockLoop(P, stmts) ==
    IF ~check(P, "BraceClose") /\ ~Parser_at_end(P)
    THEN LET r == Call("handle_declaration", <<>>, P)
         IN  IF r.st # "ok" THEN r
             ELSE Call("BlockLoop", Append(stmts, r.node), r.P)
    ELSE LET c == consume_if(P, "BraceClose", "Expected '}' after block.")
         IN  IF c.st # "ok" THEN c
             ELSE LET e == consume_if(c.P, "StatementEnd",
                                      "Expected statement end after block.")
                  IN  IF e.st # "ok" THEN e
                      ELSE PRes("ok", e.P, stmts)

parse_block(P) == Call("BlockLoop", <<>>, P)

handle_block_statement(P) ==
    LET r == Call("parse_block", <<>>, P)
    IN  IF r.st # "ok" THEN r ELSE PRes("ok", r.P, BlockStatement(r.node))

handle_statement(P) ==
    IF match_next(P, {"DollarLess"}) THEN Call("handle_print_statement", <<>>, advance(P))
    ELSE IF match_next(P, {"BraceOpen"}) THEN Call("handle_block_statement", <<>>, advance(P))
    ELSE Call("handle_expression_statement", <<>>, P)

handle_var_declaration(P) ==
    LET n == consume_if(P, "Identifier", "Expected variable name.")
    IN  IF n.st # "ok" THEN n
        ELSE LET hasInit == match_next(n.P, {"Equal"})
                 i == IF hasInit THEN Call("handle_expression", <<>>, advance(n.P))
                      ELSE PRes("ok", n.P, NoneOpt)
             IN  IF i.st # "ok" THEN i
                 ELSE LET c == consume_if(i.P, "StatementEnd",
                                  "Expected statement end after variable declaration.")
                      IN  IF c.st # "ok" THEN c
                          ELSE PRes("ok", c.P,
                                    VarStatement(n.node,
                                        IF hasInit THEN Some(i.node) ELSE NoneOpt))

\* after a failed declaration or statement: synchronize, then the no-op
Recover(P) ==
    LET s == synchronize(P)
    IN  PRes(s.st, s.P, NoOpStatement)

\* handle_declaration as it would be if only a failed statement were
\* recovered, a failed variable declaration being returned to the caller
handle_declaration_var_unrecovered(P) ==
    LET r == IF match_next(P, {"Offering"}) THEN Call("handle_var_declaration", <<>>, advance(P))
             ELSE Call("handle_statement", <<>>, P)
    IN  IF r.st = "err" /\ ~match_next(P, {"Offering"}) THEN Recover(r.P) ELSE r

handle_declaration(P) ==
    LET r == IF match_next(P, {"Offering"}) THEN Call("handle_var_declaration", <<>>, advance(P))
             ELSE Call("handle_statement", <<>>, P)
    IN  IF r.st = "err" THEN Recover(r.P) ELSE r

Call(rule, arg, P) ==
    CASE rule = "handle_primary" -> handle_primary(P)
      [] rule = "handle_unary" -> handle_unary(P)
      [] rule = "handle_factor" -> handle_factor(P)
      [] rule = "FactorLoop" -> FactorLoop(P, arg)
      [] rule = "handle_term" -> handle_term(P)
      [] rule = "TermLoop" -> TermLoop(P, arg)
      [] rule = "handle_comparison" -> handle_comparison(P)
      [] rule = "ComparisonLoop" -> ComparisonLoop(P, arg)
      [] rule = "handle_equality" -> handle_equality(P)
      [] rule = "EqualityLoop" -> EqualityLoop(P, arg)
      [] rule = "handle_assignment" -> handle_assignment(P)
      [] rule = "handle_expression" -> handle_expression(P)
      [] rule = "handle_print_statement" -> handle_print_statement(P)
      [] rule = "handle_expression_statement" -> handle_expression_statement(P)
      [] rule = "BlockLoop" -> BlockLoop(P, arg)
      [] rule = "parse_block" -> parse_block(P)
      [] rule = "handle_block_statement" -> handle_block_statement(P)
      [] rule = "handle_statement" -> handle_statement(P)
      [] rule = "handle_var_declaration" -> handle_var_declaration(P)
      [] rule = "handle_declaration" -> handle_declaration(P)

----------------------------------------------------------------------------
(* value.rs: Display.  An f64 is written in positional notation with the   *)
(* fewest digits that read back as the same f64.                           *)

DigitChar(k) == <<"0", "1", "2", "3", "4", "5", "6", "7", "8", "9">>[k + 1]

\* the digits of r / s, a number below 1, down to the first place where the
\* digits read back as the same f64: the way to the next f64 above is mp / s,
\* below mm / s, and the ends of that interval read back as it when even
RECURSIVE ShortestDigits(_, _, _, _, _)
ShortestDigits(r, mp, mm, s, even) ==
    LET ended(d, r1, mp1, mm1, low, high) ==
            IF ~low /\ ~high THEN <<d>> \o ShortestDigits(r1, mp1, mm1, s, even)
            ELSE IF low /\ ~high THEN <<d>>
            ELSE IF ~low /\ high THEN <<d + 1>>
            ELSE IF BCmp(BMulSmall(r1, 2), s) < 0 THEN <<d>>
            ELSE <<d + 1>>
        rest(d, r1, mp1, mm1) ==
            ended(d, r1, mp1, mm1,
                  BCmp(r1, mm1) < (IF even THEN 1 ELSE 0),
                  BCmp(BAdd(r1, mp1), s) > (IF even THEN -1 ELSE 0))
        digit(r10, d) ==
            rest(d, BSub(r10, BMulSmall(s, d)), BMulSmall(mp, 10), BMulSmall(mm, 10))
        next(r10) == digit(r10, CHOOSE d \in 0..9 : /\ BCmp(BMulSmall(s, d), r10) <= 0
                                                     /\ BCmp(BMulSmall(s, d + 1), r10) > 0)
    IN  next(BMulSmall(r, 10))

\* the place k of the first digit of r / s: the least with (r + mp) / s below
\* 10^k, which is est, the count of binary digits times log 2, or near it
ShortestPlace(r, mp, s, even, est) ==
    LET above(j) == BCmp(BMul(BAdd(r, mp), BPow10(Max(-j, 0))), BMul(s, BPow10(Max(j, 0))))
                        > (IF even THEN -1 ELSE 0)
    IN  CHOOSE j \in (est - 1)..(est + 2) : above(j - 1) /\ ~above(j)

ShortestScaled(r, mp, mm, s, even, k) ==
    [digits |-> ShortestDigits(BMul(r, BPow10(Max(-k, 0))), BMul(mp, BPow10(Max(-k, 0))),
                               BMul(mm, BPow10(Max(-k, 0))), BMul(s, BPow10(Max(k, 0))),
                               even),
     k |-> k]

\* the digits d1 d2 ... dn and the place k with |a| = 0.d1d2...dn * 10^k, the
\* shortest such that lie nearer to a than to any other f64, and among them
\* the nearest to a; for a finite a other than zero
Shortest(a) ==
    LET \* f * 2^e = |a|, f with all its 53 digits unless e is the least exponent
        sh == Min(MantissaDigits - BBitLen(a.m), a.e - MinExp)
        e == a.e - sh
        up == Max(e, 0)
        two == IF BBitLen(a.m) = 1 /\ e # MinExp THEN 2 ELSE 1
        from(r, mp, mm, s, even) ==
            ShortestScaled(r, mp, mm, s, even,
                           ShortestPlace(r, mp, s, even,
                                         ((BBitLen(a.m) + a.e - 1) * 30103) \div 100000))
    IN  from(BShl(a.m, sh + up + two), BShl(<<1>>, up + two - 1), BShl(<<1>>, up),
             BShl(<<1>>, Max(-e, 0) + two), BLimb(BShl(a.m, sh), 1) % 2 = 0)

\* impl Display for f64
NumberText(a) ==
    LET sign == IF a.s = 1 THEN <<"-">> ELSE <<>>
        positional(text, k) ==
            IF k <= 0 THEN sign \o <<"0", ".">> \o [i \in 1..(-k) |-> "0"] \o text
            ELSE IF k >= Len(text) THEN sign \o text \o [i \in 1..(k - Len(text)) |-> "0"]
            ELSE sign \o SubSeq(text, 1, k) \o <<".">> \o SubSeq(text, k + 1, Len(text))
        written(d) == positional([i \in 1..Len(d.digits) |-> DigitChar(d.digits[i])], d.k)
    IN  IF a.k = "nan" THEN <<"N", "a", "N">>
        ELSE IF a.k = "inf" THEN sign \o <<"i", "n", "f">>
        ELSE IF IsZero(a) THEN sign \o <<"0">>
        ELSE written(Shortest(a))

BoolText(b) == IF b THEN <<"t", "r", "u", "e">> ELSE <<"f", "a", "l", "s", "e">>

\* impl Display for Value
Display(val) ==
    CASE val.tag = "String" -> val.v
      [] val.tag = "Number" -> NumberText(val.v)
      [] val.tag = "Boolean" -> BoolText(val.v)
      [] val.tag = "None" -> <<"n", "o", "n", "e">>

----------------------------------------------------------------------------
(* environment.rs is not part of the sources; Environment follows the      *)
(* specification, section 4.3.  A frame is its bindings and the index of   *)
(* its enclosing frame in the arena (0: none).                             *)

EnvironmentNew(enclosing) == [values |-> <<>>, enclosing |-> enclosing]

Put(f, k, v) == [x \in DOMAIN f \cup {k} |-> IF x = k THEN v ELSE f[x]]

\* the nearest frame of the chain from env that binds name, or 0
RECURSIVE Lookup(_, _, _)
Lookup(frames, env, name) ==
    IF env = 0 THEN 0
    ELSE IF name \in DOMAIN frames[env].values THEN env
    ELSE Lookup(frames, frames[env].enclosing, name)

Env_define(frames, env, name, value) ==
    [frames EXCEPT ![env].values = Put(@, name, value)]

RuntimeError(token, msg) == [token |-> token, msg |-> msg]

Env_get(frames, env, name) ==
    LET f == Lookup(frames, env, name.lexeme)
    IN  IF f = 0 THEN [ok |-> FALSE, err |-> RuntimeError(name, "Undefined variable.")]
        ELSE [ok |-> TRUE, val |-> frames[f].values[name.lexeme]]

Env_assign(frames, env, name, value) ==
    LET f == Lookup(frames, env, name.lexeme)
    IN  IF f = 0 THEN [ok |-> FALSE, err |-> RuntimeError(name, "Undefined variable.")]
        ELSE [ok |-> TRUE, frames |-> [frames EXCEPT ![f].values[name.lexeme] = value]]

----------------------------------------------------------------------------
(* interpreter.rs.  An interpreter operator works on S: the current frame  *)
(* env, the arena frames, the lines printed, and log, a record of the      *)
(* blocks entered and left and of the statements begun inside them.  It    *)
(* yields st: "ok" (Ok), "err" (Err, with err) or "capped" (a while loop   *)
(* ran MaxLoop times, where the model stops following it).                 *)

InterpreterNew == [env |-> 1, frames |-> <<EnvironmentNew(0)>>]

IOk(val, S) == [st |-> "ok", val |-> val, S |-> S, err |-> NoneOpt]
IErr(token, msg, S) ==
    [st |-> "err", val |-> NoneV, S |-> S, err |-> Some(RuntimeError(token, msg))]

is_truthy(val) ==
    CASE val.tag = "None" -> FALSE
      [] val.tag = "Boolean" -> val.v
      [] OTHER -> TRUE

is_equal(a, b) ==
    CASE a.tag = "None" -> b.tag = "None"
      [] a.tag = "Boolean" -> (IF b.tag = "Boolean" THEN b.v = a.v ELSE FALSE)
      [] a.tag = "Number" -> (IF b.tag = "Number" THEN QEq(a.v, b.v) ELSE FALSE)
      [] a.tag = "String" -> (IF b.tag = "String" THEN a.v = b.v ELSE FALSE)

\* The interpreter's operators call one another through Ev, which dispatches
\* on the operator's name; arg is the second parameter of the loop operators.
RECURSIVE Ev(_, _, _, _)

eval_unary(expr, S) ==
    LET r == Ev("evaluate", expr.right, 0, S)
    IN  IF r.st # "ok" THEN r
        ELSE CASE expr.operator.token_type = "Minus" ->
                    IF r.val.tag = "Number" THEN IOk(NumV(QNeg(r.val.v)), r.S)
                    ELSE IErr(expr.operator,
                              "Minus unary operator can only be used on numbers.", r.S)
               [] expr.operator.token_type = "Not" -> IOk(BoolV(~is_truthy(r.val)), r.S)
               [] OTHER -> IErr(expr.operator,
                                "Minus unary operator can only be used on numbers.", r.S)

\* eval_postfix as it would be if it returned the value read, not the one written
eval_postfix_old_value(expr, S) ==
    IF expr.left.kind # "Variable"
    THEN IErr(expr.operator, "Expected variable in postfix operator.", S)
    ELSE LET var == expr.left
             g == Env_get(S.frames, S.env, var.name)
         IN  IF ~g.ok THEN [st |-> "err", val |-> NoneV, S |-> S, err |-> Some(g.err)]
             ELSE IF g.val.tag # "Number"
             THEN IErr(expr.operator, "Postfix operators can only be used with numbers.", S)
             ELSE IF expr.operator.token_type \notin {"MinusMinus", "PlusPlus"}
             THEN IErr(expr.operator, "Unrecognized postfix operator.", S)
             ELSE LET old_val == g.val.v
                      new_val == IF expr.operator.token_type = "MinusMinus"
                                 THEN NumV(QSub(old_val, IntQ(1)))
                                 ELSE NumV(QAdd(old_val, IntQ(1)))
                      a == Env_assign(S.frames, S.env, var.name, new_val)
                  IN  IF ~a.ok
                      THEN [st |-> "err", val |-> NoneV, S |-> S, err |-> Some(a.err)]
                      ELSE IOk(g.val, [S EXCEPT !.frames = a.frames])

eval_postfix(expr, S) ==
    IF expr.left.kind # "Variable"
    THEN IErr(expr.operator, "Expected variable in postfix operator.", S)
    ELSE LET var == expr.left
             g == Env_get(S.frames, S.env, var.name)
         IN  IF ~g.ok THEN [st |-> "err", val |-> NoneV, S |-> S, err |-> Some(g.err)]
             ELSE IF g.val.tag # "Number"
             THEN IErr(expr.operator, "Postfix operators can only be used with numbers.", S)
             ELSE IF expr.operator.token_type \notin {"MinusMinus", "PlusPlus"}
             THEN IErr(expr.operator, "Unrecognized postfix operator.", S)
             ELSE LET old_val == g.val.v
                      new_val == IF expr.operator.token_type = "MinusMinus"
                                 THEN NumV(QSub(old_val, IntQ(1)))
                                 ELSE NumV(QAdd(old_val, IntQ(1)))
                      a == Env_assign(S.frames, S.env, var.name, new_val)
                  IN  IF ~a.ok
                      THEN [st |-> "err", val |-> NoneV, S |-> S, err |-> Some(a.err)]
                      ELSE IOk(new_val, [S EXCEPT !.frames = a.frames])

\* the arms of eval_binary that take two Numbers
NumericArm(op) ==
    CASE op = "Minus" -> "Minus binary operator can only be used on numbers."
      [] op = "Divide" -> "Divide binary operator can only be used on numbers."
      [] op = "Multiply" -> "Multiply binary operator can only be used on numbers."
      [] op = "Greater" -> "Greater binary operator can only be used on numbers."
      [] op = "GreaterEqual" ->
            "Greater-or-Equal binary operator can only be used on numbers."
      [] op = "Less" -> "Less binary operator can only be used on numbers."
      [] op = "LessEqual" -> "Less-or-Equal binary operator can only be used on numbers."

NumericResult(op, x, y) ==
    CASE op = "Minus" -> NumV(QSub(x, y))
      [] op = "Divide" -> NumV(QDiv(x, y))
      [] op = "Multiply" -> NumV(QMul(x, y))
      [] op = "Greater" -> BoolV(QLess(y, x))
      [] op = "GreaterEqual" -> BoolV(QLess(y, x) \/ QEq(x, y))
      [] op = "Less" -> BoolV(QLess(x, y))
      [] op = "LessEqual" -> BoolV(QLess(x, y) \/ QEq(x, y))

\* the Plus arm as it would be if a String on either side made a concatenation
PlusArm_either_string(operator, left, right, S) ==
    IF left.tag = "String"
    THEN IF right.tag = "String" THEN IOk(StrV(left.v \o right.v), S)
         ELSE CASE right.tag = "Number" -> IOk(StrV(left.v \o NumberText(right.v)), S)
                [] right.tag = "Boolean" -> IOk(StrV(left.v \o BoolText(right.v)), S)
                [] right.tag = "None" -> IOk(StrV(left.v \o <<"n", "o", "n", "e">>), S)
                [] OTHER -> IErr(operator, "Unknown right operand in string concat.", S)
    ELSE IF left.tag = "Number"
    THEN IF right.tag = "Number" THEN IOk(NumV(QAdd(left.v, right.v)), S)
         ELSE IF right.tag = "String" THEN IOk(StrV(NumberText(left.v) \o right.v), S)
         ELSE IErr(operator, "Cannot add non-number to number.", S)
    ELSE IErr(operator, "Plus binary operator can only be used with strings or numbers", S)

\* the Plus arm of eval_binary
PlusArm(operator, left, right, S) ==
    IF left.tag = "String"
    THEN IF right.tag = "String" THEN IOk(StrV(left.v \o right.v), S)
         ELSE CASE right.tag = "Number" -> IOk(StrV(left.v \o NumberText(right.v)), S)
                [] right.tag = "Boolean" -> IOk(StrV(left.v \o BoolText(right.v)), S)
                [] right.tag = "None" -> IOk(StrV(left.v \o <<"n", "o", "n", "e">>), S)
                [] OTHER -> IErr(operator, "Unknown right operand in string concat.", S)
    ELSE IF left.tag = "Number"
    THEN IF right.tag = "Number" THEN IOk(NumV(QAdd(left.v, right.v)), S)
         ELSE IErr(operator, "Cannot add non-number to number.", S)
    ELSE IErr(operator, "Plus binary operator can only be used with strings or numbers", S)

\* eval_binary as it would be if only the left operand's type were checked
\* before arithmetic and comparison, a non-Number right operand counting as 0
eval_binary_left_only(expr, S) ==
    LET l == Ev("evaluate", expr.left, 0, S)
    IN  IF l.st # "ok" THEN l
        ELSE LET r == Ev("evaluate", expr.right, 0, l.S)
                 op == expr.operator.token_type
             IN  IF r.st # "ok" THEN r
                 ELSE IF op \in {"Minus", "Divide", "Multiply", "Greater",
                                  "GreaterEqual", "Less", "LessEqual"}
                 THEN IF l.val.tag = "Number"
                      THEN IOk(NumericResult(op, l.val.v,
                                   IF r.val.tag = "Number" THEN r.val.v ELSE IntQ(0)), r.S)
                      ELSE IErr(expr.operator, NumericArm(op), r.S)
                 ELSE IF op = "Plus" THEN PlusArm(expr.operator, l.val, r.val, r.S)
                 ELSE IF op = "Is" THEN IOk(BoolV(is_equal(l.val, r.val)), r.S)
                 ELSE IErr(expr.operator, "Unknown operator in binary expression.", r.S)

eval_binary(expr, S) ==
    LET l == Ev("evaluate", expr.left, 0, S)
    IN  IF l.st # "ok" THEN l
        ELSE LET r == Ev("evaluate", expr.right, 0, l.S)
                 op == expr.operator.token_type
             IN  IF r.st # "ok" THEN r
                 ELSE IF op \in {"Minus", "Divide", "Multiply", "Greater",
                                  "GreaterEqual", "Less", "LessEqual"}
                 THEN IF l.val.tag = "Number" /\ r.val.tag = "Number"
                      THEN IOk(NumericResult(op, l.val.v, r.val.v), r.S)
                      ELSE IErr(expr.operator, NumericArm(op), r.S)
                 ELSE IF op = "Plus" THEN PlusArm(expr.operator, l.val, r.val, r.S)
                 ELSE IF op = "Is" THEN IOk(BoolV(is_equal(l.val, r.val)), r.S)
                 ELSE IErr(expr.operator, "Unknown operator in binary expression.", r.S)

eval_variable(expr, S) ==
    LET g == Env_get(S.frames, S.env, expr.name)
    IN  IF g.ok THEN IOk(g.val, S)
        ELSE [st |-> "err", val |-> NoneV, S |-> S, err |-> Some(g.err)]

\* eval_assign as it would be if an unbound target were declared in the current frame
eval_assign_declaring(expr, S) ==
    LET r == Ev("evaluate", expr.value, 0, S)
    IN  IF r.st # "ok" THEN r
        ELSE LET a == Env_assign(r.S.frames, r.S.env, expr.name, r.val)
             IN  IF ~a.ok
                 THEN IOk(r.val, [r.S EXCEPT !.frames =
                                     Env_define(@, r.S.env, expr.name.lexeme, r.val)])
                 ELSE IOk(r.val, [r.S EXCEPT !.frames = a.frames])

eval_assign(expr, S) ==
    LET r == Ev("evaluate", expr.value, 0, S)
    IN  IF r.st # "ok" THEN r
        ELSE LET a == Env_assign(r.S.frames, r.S.env, expr.name, r.val)
             IN  IF ~a.ok
                 THEN [st |-> "err", val |-> NoneV, S |-> r.S, err |-> Some(a.err)]
                 ELSE IOk(r.val, [r.S EXCEPT !.frames = a.frames])

\* eval_logical as it would be if both operands were evaluated before the choice
eval_logical_eager(expr, S) ==
    LET l == Ev("evaluate", expr.left, 0, S)
    IN  IF l.st # "ok" THEN l
        ELSE LET r == Ev("evaluate", expr.right, 0, l.S)
             IN  IF r.st # "ok" THEN r
                 ELSE IF expr.operator.token_type = "Or"
                 THEN (IF is_truthy(l.val) THEN IOk(l.val, r.S) ELSE r)
                 ELSE (IF ~is_truthy(l.val) THEN IOk(l.val, r.S) ELSE r)

eval_logical(expr, S) ==
    LET l == Ev("evaluate", expr.left, 0, S)
    IN  IF l.st # "ok" THEN l
        ELSE IF expr.operator.token_type = "Or"
        THEN IF is_truthy(l.val) THEN l ELSE Ev("evaluate", expr.right, 0, l.S)
        ELSE IF ~is_truthy(l.val) THEN l ELSE Ev("evaluate", expr.right, 0, l.S)

evaluate(expr, S) ==
    CASE expr.kind = "Literal" -> IOk(expr.value, S)
      [] expr.kind = "Grouping" -> Ev("evaluate", expr.expr, 0, S)
      [] expr.kind = "Unary" -> Ev("eval_unary", expr, 0, S)
      [] expr.kind = "Postfix" -> Ev("eval_postfix", expr, 0, S)
      [] expr.kind = "Binary" -> Ev("eval_binary", expr, 0, S)
      [] expr.kind = "Variable" -> Ev("eval_variable", expr, 0, S)
      [] expr.kind = "Assign" -> Ev("eval_assign", expr, 0, S)
      [] expr.kind = "Logical" -> Ev("eval_logical", expr, 0, S)

execute_print_statement(statement, S) ==
    LET r == Ev("evaluate", statement.expr, 0, S)
    IN  IF r.st # "ok" THEN r
        ELSE IOk(NoneV, [r.S EXCEPT !.out = Append(@, Display(r.val))])

execute_expression_statement(statement, S) ==
    LET r == Ev("evaluate", statement.expr, 0, S)
    IN  IF r.st # "ok" THEN r ELSE IOk(NoneV, r.S)

\* execute_var_statement as it would be if it defined in the global frame
execute_var_statement_global(statement, S) ==
    LET r == IF statement.initializer # NoneOpt
             THEN Ev("evaluate", statement.initializer[1], 0, S)
             ELSE IOk(NoneV, S)
    IN  IF r.st # "ok" THEN r
        ELSE IOk(NoneV, [r.S EXCEPT !.frames =
                            Env_define(@, 1, statement.name.lexeme, r.val)])

execute_var_statement(statement, S) ==
    LET r == IF statement.initializer # NoneOpt
             THEN Ev("evaluate", statement.initializer[1], 0, S)
             ELSE IOk(NoneV, S)
    IN  IF r.st # "ok" THEN r
        ELSE IOk(NoneV, [r.S EXCEPT !.frames =
                            Env_define(@, r.S.env, statement.name.lexeme, r.val)])

HasFailed(log) == \E i \in DOMAIN log : log[i].ev = "fail"

\* the loop of execute_block from statement i on: each result is dropped (.ok())
BlockBody(statements, i, S) ==
    IF i > Len(statements) THEN IOk(NoneV, S)
    ELSE LET begun == [S EXCEPT !.log = Append(@, [ev |-> "begin", env |-> S.env])]
             r == Ev("execute", statements[i], 0, begun)
             after == IF r.st = "err"
                      THEN [r.S EXCEPT !.log = Append(@, [ev |-> "fail", env |-> r.S.env])]
                      ELSE r.S
         IN  IF r.st = "capped" THEN r
             ELSE Ev("BlockBody", statements, i + 1, after)

\* execute_block as it would be if it restored the frame only after a body
\* without errors
execute_block_restore_on_success(statements, env, S) ==
    LET prev == S.env
        entered == [S EXCEPT !.env = env,
                             !.log = Append(@, [ev |-> "enter", env |-> env,
                                                previous |-> prev,
                                                enclosing |-> S.frames[env].enclosing])]
        r == Ev("BlockBody", statements, 1, entered)
        restored == IF HasFailed(r.S.log) THEN r.S ELSE [r.S EXCEPT !.env = prev]
    IN  IF r.st = "capped" THEN r
        ELSE IOk(NoneV, [restored EXCEPT !.log = Append(@, [ev |-> "exit", env |-> restored.env])])

\* env is the index of the frame the caller has just created
execute_block(statements, env, S) ==
    LET prev == S.env
        entered == [S EXCEPT !.env = env,
                             !.log = Append(@, [ev |-> "enter", env |-> env,
                                                previous |-> prev,
                                                enclosing |-> S.frames[env].enclosing])]
        r == Ev("BlockBody", statements, 1, entered)
        restored == [r.S EXCEPT !.env = prev]
    IN  IF r.st = "capped" THEN r
        ELSE IOk(NoneV, [restored EXCEPT !.log = Append(@, [ev |-> "exit", env |-> restored.env])])

execute_block_statement(statement, S) ==
    LET created == [S EXCEPT !.frames = Append(@, EnvironmentNew(S.env))]
    IN  Ev("execute_block", statement.statements, Len(created.frames), created)

execute_if_statement(statement, S) ==
    LET c == Ev("evaluate", statement.condition, 0, S)
    IN  IF c.st # "ok" THEN c
        ELSE IF is_truthy(c.val)
        THEN Ev("execute_block_statement", statement.then_branch, 0, c.S)
        ELSE IF statement.else_branch # NoneOpt
        THEN Ev("execute_block_statement", statement.else_branch[1], 0, c.S)
        ELSE IOk(NoneV, c.S)

\* the loop of execute_while_statement with `left` iterations still followed
WhileLoop(statement, left, S) ==
    LET c == Ev("evaluate", statement.condition, 0, S)
    IN  IF c.st # "ok" THEN c
        ELSE IF ~is_truthy(c.val) THEN IOk(NoneV, c.S)
        ELSE IF left = 0 THEN [st |-> "capped", val |-> NoneV, S |-> c.S, err |-> NoneOpt]
        ELSE LET b == Ev("execute_block_statement", statement.body, 0, c.S)
             IN  IF b.st # "ok" THEN b
                 ELSE Ev("WhileLoop", statement, left - 1, b.S)

execute_while_statement(statement, S) == Ev("WhileLoop", statement, MaxLoop, S)

execute(statement, S) ==
    CASE statement.kind = "Print" -> Ev("execute_print_statement", statement, 0, S)
      [] statement.kind = "Expression" -> Ev("execute_expression_statement", statement, 0, S)
      [] statement.kind = "Var" -> Ev("execute_var_statement", statement, 0, S)
      [] statement.kind = "Block" -> Ev("execute_block_statement", statement, 0, S)
      [] statement.kind = "If" -> Ev("execute_if_statement", statement, 0, S)
      [] statement.kind = "While" -> Ev("execute_while_statement", statement, 0, S)

Ev(rule, node, arg, S) ==
    CASE rule = "evaluate" -> evaluate(node, S)
      [] rule = "eval_unary" -> eval_unary(node, S)
      [] rule = "eval_postfix" -> eval_postfix(node, S)
      [] rule = "eval_binary" -> eval_binary(node, S)
      [] rule = "eval_variable" -> eval_variable(node, S)
      [] rule = "eval_assign" -> eval_assign(node, S)
      [] rule = "eval_logical" -> eval_logical(node, S)
      [] rule = "execute" -> execute(node, S)
      [] rule = "execute_print_statement" -> execute_print_statement(node, S)
      [] rule = "execute_expression_statement" -> execute_expression_statement(node, S)
      [] rule = "execute_var_statement" -> execute_var_statement(node, S)
      [] rule = "BlockBody" -> BlockBody(node, arg, S)
      [] rule = "execute_block" -> execute_block(node, arg, S)
      [] rule = "execute_block_statement" -> execute_block_statement(node, S)
      [] rule = "execute_if_statement" -> execute_if_statement(node, S)
      [] rule = "WhileLoop" -> WhileLoop(node, arg, S)
      [] rule = "execute_while_statement" -> execute_while_statement(node, S)

\* ErrorHandler::runtime_error: one report, at the line of the error's token
runtime_error(x) == Report(x.token.line, x.msg)

----------------------------------------------------------------------------
(* Actions of the lexer *)

\* one iteration of the loop of lex()
LexToken ==
    /\ phase = "lex"
    /\ ~at_end(lexer)
    /\ LET landed(r) ==
               IF r.L.st = "panic"
               THEN /\ lexer' = Dead(lexer)      \* the process is gone
                    /\ diags' = diags
                    /\ phase' = "panic"
               ELSE /\ lexer' = [r.L EXCEPT !.heap = <<>>]    \* met afresh by the next call
                    /\ diags' = diags \o r.rep
                    /\ phase' = "lex"
       IN  \E heap \in Heaps(lexer) :
               landed(lex_token([lexer EXCEPT !.start = lexer.current, !.heap = heap]))
    /\ UNCHANGED <<parser, parsed, interp, program, out, events>>

\* the end of lex(): the sentinels are pushed and the tokens go to the parser
LexFinish ==
    /\ phase = "lex"
    /\ at_end(lexer)
    /\ lexer' = [lexer EXCEPT !.tokens = @ \o LexSentinels(lexer)]
    /\ parser' = ParserNew(lexer'.tokens)
    /\ phase' = "parse"
    /\ UNCHANGED <<parsed, interp, program, out, diags, events>>

\* one iteration of the loop of parse()
ParseStep ==
    /\ phase = "parse"
    /\ ~Parser_at_end(parser)
    /\ LET r == Call("handle_declaration", <<>>, WithRep(parser))
       IN  /\ parser' = WithoutRep(r.P)
           /\ diags' = diags \o r.P.rep
           /\ parsed' = IF r.st = "ok" THEN Append(parsed, r.node) ELSE parsed
           /\ phase' = CASE r.st = "ok" -> "parse"
                         [] r.st = "hang" -> "diverged"
                         [] OTHER -> "panic"   \* an unwrap of None, or todo!()
    /\ UNCHANGED <<lexer, interp, program, out, events>>

\* the end of parse(): the statements go to interpret()
ParseFinish ==
    /\ phase = "parse"
    /\ Parser_at_end(parser)
    /\ phase' = "interp"
    /\ program' = [stmts |-> parsed, ip |-> 1]
    /\ UNCHANGED <<lexer, parser, parsed, interp, out, diags, events>>

\* the loop of interpret() as it would be if it returned at the first error
InterpretStep_stop_at_error ==
    /\ phase = "interp"
    /\ program.ip <= Len(program.stmts)
    /\ LET S0 == [env |-> interp.env, frames |-> interp.frames, out |-> out, log |-> <<>>]
           landed(r) ==
               /\ interp' = [env |-> r.S.env, frames |-> r.S.frames]
               /\ out' = r.S.out
               /\ events' = r.S.log
               /\ diags' = IF r.st = "err" THEN Append(diags, runtime_error(r.err[1]))
                           ELSE diags
               /\ phase' = IF r.st = "capped" THEN "capped"
                           ELSE IF r.st = "err" THEN "done" ELSE "interp"
       IN  landed(Ev("execute", program.stmts[program.ip], 0, S0))
    /\ program' = [program EXCEPT !.ip = @ + 1]
    /\ UNCHANGED <<lexer, parser, parsed>>

\* one iteration of the loop of interpret()
InterpretStep ==
    /\ phase = "interp"
    /\ program.ip <= Len(program.stmts)
    /\ LET S0 == [env |-> interp.env, frames |-> interp.frames, out |-> out, log |-> <<>>]
           landed(r) ==
               /\ interp' = [env |-> r.S.env, frames |-> r.S.frames]
               /\ out' = r.S.out
               /\ events' = r.S.log
               /\ diags' = IF r.st = "err" THEN Append(diags, runtime_error(r.err[1]))
                           ELSE diags
               /\ phase' = IF r.st = "capped" THEN "capped" ELSE "interp"
       IN  landed(Ev("execute", program.stmts[program.ip], 0, S0))
    /\ program' = [program EXCEPT !.ip = @ + 1]
    /\ UNCHANGED <<lexer, parser, parsed>>

\* the end of interpret()
InterpretFinish ==
    /\ phase = "interp"
    /\ program.ip > Len(program.stmts)
    /\ phase' = "done"
    /\ UNCHANGED <<lexer, parser, parsed, interp, program, out, diags, events>>

InitRest ==
    /\ parsed = <<>>
    /\ interp = InterpreterNew
    /\ program = [stmts |-> <<>>, ip |-> 1]
    /\ out = <<>>
    /\ diags = <<>>
    /\ events = <<>>

\* source texts of the lexer specification beyond the exhaustive ones: keywords
\* and brackets before a line break, nested brackets, unterminated strings
FocusSources ==
    {<<"t", "r", "u", "e", "\n">>,
     <<"f", "a", "l", "s", "e", "\n">>,
     <<"n", "o", "n", "e", "\n">>,
     <<"e", "n", "d", "\n">>,
     <<"}", "\n">>,
     <<"]", "\n">>,
     <<"i", "f", "\n">>,
     <<"o", "r", "\n">>,
     <<"a", "1", "\n">>,
     <<"=", "\n">>,
     <<"$", "<", "\n">>,
     <<"[", "\n", "1">>,
     <<"[", "(", "1", ")", "\n", "]">>,
     <<"(", "(", "1", ")", "\n", ")">>,
     <<"(", "1", "\n", ")", "\n">>,
     <<"1", " ", "\"", "a", "b">>,
     <<"1", "\n", "\"", "a", "\n", "b">>,
     <<"\"", "a", "\"", "\n", "\"", "b">>,
     <<"?", "\"", "\n", "\"", "a">>}

\* source texts with a character of more than one byte
WideSources ==
    {<<"U+E9">>, <<"U+20AC">>, <<"U+E9", "1">>, <<"1", "U+E9">>, <<"1", "U+E9", "\n">>,
     <<"1", "\n", "U+E9">>, <<"U+E9", " ", "1">>, <<"U+E9", " ", "a">>,
     <<"U+E9", " ", " ", "1", "\n">>, <<"a", "U+E9">>, <<"?", "U+E9", "\n", "1">>,
     <<"\"", "U+E9">>, <<"\"", "U+E9", "\"">>, <<"1", " ", "\"", "U+E9">>,
     <<"U+E9", "\"", "a">>, <<"+", "U+E9">>, <<"U+E9", "=">>, <<"U+E9", " ", "+">>,
     <<"U+E9", " ", "+", "1", "2">>, <<"U+E9", " ", "-", "0", ".", "5", "5">>,
     <<"U+E9", " ", ".", "5">>, <<"U+E9", " ", "1", ".">>, <<"U+E9", " ", "\"", "a">>,
     <<"U+20AC", " ", "a">>}

\* the two build profiles of the program
Builds == {"debug", "release"}

InitLex ==
    /\ phase = "lex"
    /\ lexer \in {[LexerNew(s) EXCEPT !.build = b] :
                    s \in SeqsUpTo(LexAlphabet, MaxSrcLen) \cup FocusSources \cup WideSources,
                    b \in Builds}
    /\ parser = ParserNew(<<>>)
    /\ InitRest

NextLex == LexToken \/ LexFinish

SpecLex == InitLex /\ [][NextLex]_vars

\* the token of a kind, as the lexer writes it
\* the source text the lexer turns into a token of the kind
KindText(kind) ==
    CASE kind = "ParenOpen" -> <<"(">>
      [] kind = "ParenClose" -> <<")">>
      [] kind = "SquareOpen" -> <<"[">>
      [] kind = "SquareClose" -> <<"]">>
      [] kind = "BraceOpen" -> <<"{">>
      [] kind = "BraceClose" -> <<"}">>
      [] kind = "Comma" -> <<",">>
      [] kind = "Dot" -> <<".">>
      [] kind = "Minus" -> <<"-">>
      [] kind = "MinusMinus" -> <<"-", "-">>
      [] kind = "MinusEqual" -> <<"-", "=">>
      [] kind = "Plus" -> <<"+">>
      [] kind = "PlusPlus" -> <<"+", "+">>
      [] kind = "PlusEqual" -> <<"+", "=">>
      [] kind = "Multiply" -> <<"*">>
      [] kind = "Divide" -> <<"/">>
      [] kind = "Equal" -> <<"=">>
      [] kind = "DollarGreater" -> <<"$", ">">>
      [] kind = "DollarLess" -> <<"$", "<">>
      [] kind = "Less" -> <<"<">>
      [] kind = "LessEqual" -> <<"<", "=">>
      [] kind = "Greater" -> <<">">>
      [] kind = "GreaterEqual" -> <<">", "=">>
      [] kind = "StatementEnd" -> <<"\n">>
      [] kind = "Number" -> <<"1">>
      [] kind = "String" -> <<"\"", "s", "\"">>
      [] kind = "Identifier" -> <<"a">>
      [] kind = "And" -> <<"a", "n", "d">>
      [] kind = "Else" -> <<"e", "l", "s", "e">>
      [] kind = "If" -> <<"i", "f">>
      [] kind = "Or" -> <<"o", "r">>
      [] kind = "Is" -> <<"i", "s">>
      [] kind = "Not" -> <<"n", "o", "t">>
      [] kind = "Offering" -> <<"o", "f", "f", "e", "r", "i", "n", "g">>
      [] kind = "While" -> <<"w", "h", "i", "l", "e">>

\* the token the lexer emits for that text on line 0: the line break is
\* counted before its StatementEnd is pushed
TokenOf(kind) ==
    Token(kind, KindText(kind),
          CASE kind = "Number" -> NumV(IntQ(1))
            [] kind = "String" -> StrV(<<"s">>)
            [] OTHER -> NoneV,
          IF kind = "StatementEnd" THEN 1 ELSE 0)

Ident(ch) == Token("Identifier", <<ch>>, NoneV, 0)

\* the tokens of a sequence of kinds
Toks(ks) == [i \in 1..Len(ks) |-> TokenOf(ks[i])]

\* the line of each token when every StatementEnd among them is a line break
\* and the text has no other line break: the lexer counts the break first
EndsUpTo(toks, i) == Cardinality({j \in 1..i : toks[j].token_type = "StatementEnd"})

Lined(toks) == [i \in 1..Len(toks) |-> [toks[i] EXCEPT !.line = EndsUpTo(toks, i)]]

\* what lex() returns for a source lexed to toks: toks, then the two sentinels
ParserInput(toks) ==
    Lined(toks) \o LexSentinels([LexerNew(<<>>) EXCEPT !.line = EndsUpTo(toks, Len(toks))])

\* if x { }   if x { $< 1 }   if x { } else { }   while x { }   while x { $< 1 }
\* with a line break after each { and each statement
IfWhileTokens ==
    {Toks(<<"If", "Identifier", "BraceOpen", "BraceClose">>),
     Toks(<<"If", "Identifier", "BraceOpen", "DollarLess", "Number", "StatementEnd",
            "BraceClose">>),
     Toks(<<"If", "Identifier", "BraceOpen", "BraceClose",
            "Else", "BraceOpen", "BraceClose">>),
     Toks(<<"While", "Identifier", "BraceOpen", "BraceClose">>),
     Toks(<<"While", "Identifier", "BraceOpen", "DollarLess", "Number", "StatementEnd",
            "BraceClose">>)}

\* a and b   a or b   a++   a--   as expression statements and printed
LogicalTokens ==
    {pre \o <<Ident("a"), TokenOf(op), Ident("b")>> :
        pre \in {<<>>, Toks(<<"DollarLess">>)}, op \in {"And", "Or"}}

PostfixTokens ==
    {pre \o <<Ident("a"), TokenOf(op)>> :
        pre \in {<<>>, Toks(<<"DollarLess">>)}, op \in {"PlusPlus", "MinusMinus"}}

\* the operators of the equality, comparison, term and factor levels
BinaryOps ==
    {"Is", "Not", "Greater", "GreaterEqual", "Less", "LessEqual",
     "Plus", "Minus", "Multiply", "Divide"}

OperandNames == <<"a", "b", "c", "d", "e", "f">>

\* a op1 b op2 c ...
Chain(ops) ==
    [i \in 1..(2 * Len(ops) + 1) |->
        IF i % 2 = 1 THEN Ident(OperandNames[(i + 1) \div 2]) ELSE TokenOf(ops[i \div 2])]

ChainTokens == {Chain(ops) : ops \in SeqsUpTo(BinaryOps, MaxOps)}

InvalidTarget == Report(0, "Invalid assignment target.")

\* assignments, the statement each one parses into and what is reported:
\* 1 = a   (a) = 1   a + b = 1   1 = b = 2   1 = 2 = 3   $< 1 = a
\* a = b = 1   a = b = c = 1   $< a = 1
AssignCases ==
    LET a == Ident("a")
        b == Ident("b")
        c == Ident("c")
        one == TokenOf("Number")
        eq == TokenOf("Equal")
        plus == TokenOf("Plus")
        lit == Literal(NumV(IntQ(1)))
    IN  {[toks |-> <<one, eq, a>>,
          stmt |-> ExpressionStatement(lit), diags |-> <<InvalidTarget>>],
         [toks |-> <<TokenOf("ParenOpen"), a, TokenOf("ParenClose"), eq, one>>,
          stmt |-> ExpressionStatement(Grouping(Variable(a))), diags |-> <<InvalidTarget>>],
         [toks |-> <<a, plus, b, eq, one>>,
          stmt |-> ExpressionStatement(Binary(Variable(a), plus, Variable(b))),
          diags |-> <<InvalidTarget>>],
         [toks |-> <<one, eq, b, eq, one>>,
          stmt |-> ExpressionStatement(lit), diags |-> <<InvalidTarget>>],
         [toks |-> <<one, eq, one, eq, one>>,
          stmt |-> ExpressionStatement(lit), diags |-> <<InvalidTarget, InvalidTarget>>],
         [toks |-> <<TokenOf("DollarLess"), one, eq, a>>,
          stmt |-> PrintStatement(lit), diags |-> <<InvalidTarget>>],
         [toks |-> <<a, eq, b, eq, one>>,
          stmt |-> ExpressionStatement(Assign(a, Assign(b, lit))), diags |-> <<>>],
         [toks |-> <<a, eq, b, eq, c, eq, one>>,
          stmt |-> ExpressionStatement(Assign(a, Assign(b, Assign(c, lit)))),
          diags |-> <<>>],
         [toks |-> <<TokenOf("DollarLess"), a, eq, one>>,
          stmt |-> PrintStatement(Assign(a, lit)), diags |-> <<>>]}

AssignTokens == {c.toks : c \in AssignCases}

\* blocks with a failing inner statement whose recovery ends, with the
\* statements each parses to:
\* { 1 1 ; $<1 ; }   { 1 + ; $<1 ; }   { offering 1 ; $<1 ; }
\* { $<1 ; + ; }     { { 1 1 ; } ; $<1 ; }
BlockCases ==
    LET one == TokenOf("Number")
        open == TokenOf("BraceOpen")
        close == TokenOf("BraceClose")
        semi == TokenOf("StatementEnd")
        plus == TokenOf("Plus")
        print == <<TokenOf("DollarLess"), one, semi>>
        printed == PrintStatement(Literal(NumV(IntQ(1))))
    IN  {[toks |-> <<open, one, one, semi>> \o print \o <<close>>,
          stmt |-> BlockStatement(<<NoOpStatement, printed>>)],
         [toks |-> <<open, one, plus, semi>> \o print \o <<close>>,
          stmt |-> BlockStatement(<<NoOpStatement, printed>>)],
         [toks |-> <<open, TokenOf("Offering"), one, semi>> \o print \o <<close>>,
          stmt |-> BlockStatement(<<NoOpStatement, printed>>)],
         [toks |-> <<open>> \o print \o <<plus, semi, close>>,
          stmt |-> BlockStatement(<<printed, NoOpStatement>>)],
         [toks |-> <<open, open, one, one, semi, close, semi>> \o print \o <<close>>,
          stmt |-> BlockStatement(<<BlockStatement(<<NoOpStatement>>), printed>>)]}

BlockTokens == {c.toks : c \in BlockCases}

\* token sequences of the parser specification beyond the exhaustive ones
FocusTokens ==
    IfWhileTokens \cup LogicalTokens \cup PostfixTokens \cup ChainTokens \cup AssignTokens
    \cup BlockTokens

\* any tokens, then the two sentinels
InitParse ==
    /\ phase = "parse"
    /\ lexer = LexerNew(<<>>)
    /\ parser \in {ParserNew(ParserInput(toks))
                    : toks \in {Toks(ks) : ks \in SeqsUpTo(ParseKinds, MaxToks)}
                               \cup FocusTokens}
    /\ InitRest

NextParse == ParseStep \/ ParseFinish

SpecParse == InitParse /\ [][NextParse]_vars

----------------------------------------------------------------------------
(* The programs of the interpreter specification *)

Tk(kind, text) == Token(kind, text, NoneV, 0)
X == Tk("Identifier", <<"x">>)
Y == Tk("Identifier", <<"y">>)
Num(n) == Literal(NumV(IntQ(n)))
PrintX == PrintStatement(Variable(X))
PrintY == PrintStatement(Variable(Y))
Incr(target) == Postfix(target, Tk("PlusPlus", <<"+", "+">>))
Decr(target) == Postfix(target, Tk("MinusMinus", <<"-", "-">>))
Plus(l, r) == Binary(l, Tk("Plus", <<"+">>), r)
Less(l, r) == Binary(l, Tk("Less", <<"<">>), r)
And(l, r) == Logical(l, Tk("And", <<"a", "n", "d">>), r)
Or(l, r) == Logical(l, Tk("Or", <<"o", "r">>), r)

DeclX == VarStatement(X, Some(Num(1)))                        \* offering x = 1
ShadowX == BlockStatement(<<VarStatement(X, Some(Num(2))), PrintX>>)
LocalY == BlockStatement(<<VarStatement(Y, Some(Num(2))), PrintY>>)
FailInBlock == BlockStatement(<<PrintY, PrintStatement(Num(1))>>)
FailNested ==
    BlockStatement(<<BlockStatement(<<VarStatement(X, Some(Num(5))), PrintY>>), PrintX>>)
FailInIf == IfStatement(Variable(X), BlockStatement(<<PrintY, PrintStatement(Num(1))>>),
                        NoneOpt)
CountUp == WhileStatement(Less(Variable(X), Num(3)),
                          BlockStatement(<<PrintStatement(Incr(Variable(X)))>>))
IncrInBlock == BlockStatement(<<VarStatement(Y, NoneOpt), PrintStatement(Incr(Variable(X)))>>)

StmtPool ==
    {DeclX, PrintX, PrintY, ShadowX, LocalY, FailInBlock, FailNested, FailInIf,
     CountUp, IncrInBlock,
     PrintStatement(Incr(Variable(X))),
     ExpressionStatement(Assign(X, Plus(Variable(X), Num(1)))),
     ExpressionStatement(Assign(Y, Num(2)))}

\* the values of the declared variable and of the literal operands
Vals ==
    {NumV(IntQ(1)), NumV(Half(3)), StrV(<<"a">>), BoolV(TRUE), BoolV(FALSE), NoneV}

FocusExprs ==
    {Plus(Literal(a), Literal(b)) : a \in Vals, b \in Vals}
    \cup UNION {{And(l, r), Or(l, r)} :
            l \in {Literal(v) : v \in Vals} \cup {Variable(X), Variable(Y)},
            r \in {Incr(Variable(X)), Variable(Y), Assign(X, Num(2)), Num(2)}}
    \cup UNION {{Incr(t), Decr(t)} :
            t \in {Variable(X), Variable(Y), Num(1), Grouping(Variable(X))}}

\* a declaration of x, the expression printed, then x printed
FocusPrograms ==
    {<<VarStatement(X, Some(Literal(v))), PrintStatement(e), PrintX>> :
        v \in Vals, e \in FocusExprs}

\* an assignment printed inside a block that first declares a name
AssignInBlock(decl, init, target, v) ==
    BlockStatement(<<VarStatement(decl, Some(Literal(init))),
                     PrintStatement(Assign(target, Literal(v)))>>)

AssignStmts ==
    {PrintStatement(Assign(n, Literal(v))) : n \in {X, Y}, v \in Vals}
    \cup {AssignInBlock(d, NoneV, n, v) :
            d \in {X, Y}, n \in {X, Y}, v \in {NumV(IntQ(2)), StrV(<<"a">>)}}

\* with and without a declaration of x before the assignment, x printed after it
AssignPrograms ==
    {<<DeclX, s, PrintX>> : s \in AssignStmts} \cup {<<s, PrintX>> : s \in AssignStmts}

\* the arithmetic and relational operators
NumericOps ==
    {"Minus", "Divide", "Multiply", "Greater", "GreaterEqual", "Less", "LessEqual"}

\* a op b printed, for literal operands of every type; the operator is on line 2
NumericExpr(a, op, b) == Binary(Literal(a), Token(op, KindText(op), NoneV, 2), Literal(b))

\* 0.1, which no f64 holds exactly
Tenth == ParseF64(<<"0", ".", "1">>).val

NumericOperands == Vals \cup {NumV(IntQ(0)), NumV(Tenth)}

NumericPrograms ==
    {<<PrintStatement(NumericExpr(a, op, b))>> :
        a \in NumericOperands, op \in NumericOps, b \in NumericOperands}

\* a is b
IsExpr(l, r) == Binary(l, Token("Is", <<"i", "s">>, NoneV, 0), r)

\* the operands of the equality programs: every literal, 0/0, 1/0 and 1-1
EqOperands ==
    {Literal(v) : v \in Vals \cup {NumV(IntQ(0)), StrV(<<>>), StrV(<<"1">>)}}
    \cup {NumericExpr(NumV(IntQ(n)), "Divide", NumV(IntQ(0))) : n \in {0, 1}}
    \cup {NumericExpr(NumV(IntQ(1)), "Minus", NumV(IntQ(1)))}

EqPrograms == {<<PrintStatement(IsExpr(l, r))>> : l \in EqOperands, r \in EqOperands}

\* The Numbers of the worked cases, by name: the decimal text of the literal,
\* or the power of two where that text has hundreds of digits.  "max" is the
\* greatest finite f64, (2^53 - 1) * 2^971, and 2^-1074 the least above zero.
NumberNames ==
    {"0", "1", "2", "1.5", "0.5", "-0.5", "0.1", "0.2", "2^512", "2^970", "2^1023",
     "-2^1023", "2^-1074", "max"}

Operand(name) ==
    CASE name = "0" -> IntQ(0)
      [] name = "1" -> IntQ(1)
      [] name = "2" -> IntQ(2)
      [] name = "1.5" -> Half(3)
      [] name = "0.5" -> Half(1)
      [] name = "-0.5" -> Half(-1)
      [] name = "0.1" -> Tenth
      [] name = "0.2" -> ParseF64(<<"0", ".", "2">>).val
      [] name = "2^512" -> [k |-> "fin", s |-> 0, m |-> <<1>>, e |-> 512]
      [] name = "2^970" -> [k |-> "fin", s |-> 0, m |-> <<1>>, e |-> 970]
      [] name = "2^1023" -> [k |-> "fin", s |-> 0, m |-> <<1>>, e |-> 1023]
      [] name = "-2^1023" -> [k |-> "fin", s |-> 1, m |-> <<1>>, e |-> 1023]
      [] name = "2^-1074" -> [k |-> "fin", s |-> 0, m |-> <<1>>, e |-> -1074]
      [] name = "max" -> [k |-> "fin", s |-> 0, m |-> BSub(BShl(<<1>>, 53), <<1>>), e |-> 971]

\* Worked additions a + b of two Numbers: a, b and the text that the program
\* prints for the sum, as IEEE 754 double arithmetic and Rust's Display of
\* f64 give it.  The sums past the greatest finite f64 are infinite.
PlusCases ==
    {<<"1", "1", <<"2">>>>,
     <<"1", "1.5", <<"2", ".", "5">>>>,
     <<"1", "0", <<"1">>>>,
     <<"1", "0.1", <<"1", ".", "1">>>>,
     <<"1", "0.2", <<"1", ".", "2">>>>,
     <<"1.5", "1", <<"2", ".", "5">>>>,
     <<"1.5", "1.5", <<"3">>>>,
     <<"1.5", "0", <<"1", ".", "5">>>>,
     <<"1.5", "0.1", <<"1", ".", "6">>>>,
     <<"1.5", "0.2", <<"1", ".", "7">>>>,
     <<"0", "1", <<"1">>>>,
     <<"0", "1.5", <<"1", ".", "5">>>>,
     <<"0", "0", <<"0">>>>,
     <<"0", "0.1", <<"0", ".", "1">>>>,
     <<"0", "0.2", <<"0", ".", "2">>>>,
     <<"0.1", "1", <<"1", ".", "1">>>>,
     <<"0.1", "1.5", <<"1", ".", "6">>>>,
     <<"0.1", "0", <<"0", ".", "1">>>>,
     <<"0.1", "0.1", <<"0", ".", "2">>>>,
     <<"0.1", "0.2", <<"0", ".", "3", "0", "0", "0", "0", "0", "0", "0", "0", "0", "0", "0", "0", "0", "0", "0", "4">>>>,
     <<"0.2", "1", <<"1", ".", "2">>>>,
     <<"0.2", "1.5", <<"1", ".", "7">>>>,
     <<"0.2", "0", <<"0", ".", "2">>>>,
     <<"0.2", "0.1", <<"0", ".", "3", "0", "0", "0", "0", "0", "0", "0", "0", "0", "0", "0", "0", "0", "0", "0", "4">>>>,
     <<"0.2", "0.2", <<"0", ".", "4">>>>,
     <<"2^1023", "2^1023", <<"i", "n", "f">>>>,
     <<"-2^1023", "-2^1023", <<"-", "i", "n", "f">>>>,
     <<"2^1023", "-2^1023", <<"0">>>>,
     <<"max", "2^970", <<"i", "n", "f">>>>,
     <<"2^970", "max", <<"i", "n", "f">>>>,
     <<"-0.5", "0.5", <<"0">>>>,
     <<"0.5", "0.5", <<"1">>>>,
     <<"-0.5", "-0.5", <<"-", "1">>>>,
     <<"0.5", "-0.5", <<"0">>>>}

\* Worked cases a op b of the arithmetic and relational operators on two
\* Numbers: a, op, b and the text printed.  Every pair of 1, 1.5, 0 and 0.1
\* is there under every operator; the others are results at the ends of the
\* range: infinite past the greatest finite f64, zero below the least.
NumericCases ==
    {<<"1", "Minus", "1", <<"0">>>>,
     <<"1", "Minus", "1.5", <<"-", "0", ".", "5">>>>,
     <<"1", "Minus", "0", <<"1">>>>,
     <<"1", "Minus", "0.1", <<"0", ".", "9">>>>,
     <<"1", "Divide", "1", <<"1">>>>,
     <<"1", "Divide", "1.5", <<"0", ".", "6", "6", "6", "6", "6", "6", "6", "6", "6", "6", "6", "6", "6", "6", "6", "6">>>>,
     <<"1", "Divide", "0", <<"i", "n", "f">>>>,
     <<"1", "Divide", "0.1", <<"1", "0">>>>,
     <<"1", "Multiply", "1", <<"1">>>>,
     <<"1", "Multiply", "1.5", <<"1", ".", "5">>>>,
     <<"1", "Multiply", "0", <<"0">>>>,
     <<"1", "Multiply", "0.1", <<"0", ".", "1">>>>,
     <<"1", "Greater", "1", <<"f", "a", "l", "s", "e">>>>,
     <<"1", "Greater", "1.5", <<"f", "a", "l", "s", "e">>>>,
     <<"1", "Greater", "0", <<"t", "r", "u", "e">>>>,
     <<"1", "Greater", "0.1", <<"t", "r", "u", "e">>>>,
     <<"1", "GreaterEqual", "1", <<"t", "r", "u", "e">>>>,
     <<"1", "GreaterEqual", "1.5", <<"f", "a", "l", "s", "e">>>>,
     <<"1", "GreaterEqual", "0", <<"t", "r", "u", "e">>>>,
     <<"1", "GreaterEqual", "0.1", <<"t", "r", "u", "e">>>>,
     <<"1", "Less", "1", <<"f", "a", "l", "s", "e">>>>,
     <<"1", "Less", "1.5", <<"t", "r", "u", "e">>>>,
     <<"1", "Less", "0", <<"f", "a", "l", "s", "e">>>>,
     <<"1", "Less", "0.1", <<"f", "a", "l", "s", "e">>>>,
     <<"1", "LessEqual", "1", <<"t", "r", "u", "e">>>>,
     <<"1", "LessEqual", "1.5", <<"t", "r", "u", "e">>>>,
     <<"1", "LessEqual", "0", <<"f", "a", "l", "s", "e">>>>,
     <<"1", "LessEqual", "0.1", <<"f", "a", "l", "s", "e">>>>,
     <<"1.5", "Minus", "1", <<"0", ".", "5">>>>,
     <<"1.5", "Minus", "1.5", <<"0">>>>,
     <<"1.5", "Minus", "0", <<"1", ".", "5">>>>,
     <<"1.5", "Minus", "0.1", <<"1", ".", "4">>>>,
     <<"1.5", "Divide", "1", <<"1", ".", "5">>>>,
     <<"1.5", "Divide", "1.5", <<"1">>>>,
     <<"1.5", "Divide", "0", <<"i", "n", "f">>>>,
     <<"1.5", "Divide", "0.1", <<"1", "5">>>>,
     <<"1.5", "Multiply", "1", <<"1", ".", "5">>>>,
     <<"1.5", "Multiply", "1.5", <<"2", ".", "2", "5">>>>,
     <<"1.5", "Multiply", "0", <<"0">>>>,
     <<"1.5", "Multiply", "0.1", <<"0", ".", "1", "5", "0", "0", "0", "0", "0", "0", "0", "0", "0", "0", "0", "0", "0", "0", "2">>>>,
     <<"1.5", "Greater", "1", <<"t", "r", "u", "e">>>>,
     <<"1.5", "Greater", "1.5", <<"f", "a", "l", "s", "e">>>>,
     <<"1.5", "Greater", "0", <<"t", "r", "u", "e">>>>,
     <<"1.5", "Greater", "0.1", <<"t", "r", "u", "e">>>>,
     <<"1.5", "GreaterEqual", "1", <<"t", "r", "u", "e">>>>,
     <<"1.5", "GreaterEqual", "1.5", <<"t", "r", "u", "e">>>>,
     <<"1.5", "GreaterEqual", "0", <<"t", "r", "u", "e">>>>,
     <<"1.5", "GreaterEqual", "0.1", <<"t", "r", "u", "e">>>>,
     <<"1.5", "Less", "1", <<"f", "a", "l", "s", "e">>>>,
     <<"1.5", "Less", "1.5", <<"f", "a", "l", "s", "e">>>>,
     <<"1.5", "Less", "0", <<"f", "a", "l", "s", "e">>>>,
     <<"1.5", "Less", "0.1", <<"f", "a", "l", "s", "e">>>>,
     <<"1.5", "LessEqual", "1", <<"f", "a", "l", "s", "e">>>>,
     <<"1.5", "LessEqual", "1.5", <<"t", "r", "u", "e">>>>,
     <<"1.5", "LessEqual", "0", <<"f", "a", "l", "s", "e">>>>,
     <<"1.5", "LessEqual", "0.1", <<"f", "a", "l", "s", "e">>>>,
     <<"0", "Minus", "1", <<"-", "1">>>>,
     <<"0", "Minus", "1.5", <<"-", "1", ".", "5">>>>,
     <<"0", "Minus", "0", <<"0">>>>,
     <<"0", "Minus", "0.1", <<"-", "0", ".", "1">>>>,
     <<"0", "Divide", "1", <<"0">>>>,
     <<"0", "Divide", "1.5", <<"0">>>>,
     <<"0", "Divide", "0", <<"N", "a", "N">>>>,
     <<"0", "Divide", "0.1", <<"0">>>>,
     <<"0", "Multiply", "1", <<"0">>>>,
     <<"0", "Multiply", "1.5", <<"0">>>>,
     <<"0", "Multiply", "0", <<"0">>>>,
     <<"0", "Multiply", "0.1", <<"0">>>>,
     <<"0", "Greater", "1", <<"f", "a", "l", "s", "e">>>>,
     <<"0", "Greater", "1.5", <<"f", "a", "l", "s", "e">>>>,
     <<"0", "Greater", "0", <<"f", "a", "l", "s", "e">>>>,
     <<"0", "Greater", "0.1", <<"f", "a", "l", "s", "e">>>>,
     <<"0", "GreaterEqual", "1", <<"f", "a", "l", "s", "e">>>>,
     <<"0", "GreaterEqual", "1.5", <<"f", "a", "l", "s", "e">>>>,
     <<"0", "GreaterEqual", "0", <<"t", "r", "u", "e">>>>,
     <<"0", "GreaterEqual", "0.1", <<"f", "a", "l", "s", "e">>>>,
     <<"0", "Less", "1", <<"t", "r", "u", "e">>>>,
     <<"0", "Less", "1.5", <<"t", "r", "u", "e">>>>,
     <<"0", "Less", "0", <<"f", "a", "l", "s", "e">>>>,
     <<"0", "Less", "0.1", <<"t", "r", "u", "e">>>>,
     <<"0", "LessEqual", "1", <<"t", "r", "u", "e">>>>,
     <<"0", "LessEqual", "1.5", <<"t", "r", "u", "e">>>>,
     <<"0", "LessEqual", "0", <<"t", "r", "u", "e">>>>,
     <<"0", "LessEqual", "0.1", <<"t", "r", "u", "e">>>>,
     <<"0.1", "Minus", "1", <<"-", "0", ".", "9">>>>,
     <<"0.1", "Minus", "1.5", <<"-", "1", ".", "4">>>>,
     <<"0.1", "Minus", "0", <<"0", ".", "1">>>>,
     <<"0.1", "Minus", "0.1", <<"0">>>>,
     <<"0.1", "Divide", "1", <<"0", ".", "1">>>>,
     <<"0.1", "Divide", "1.5", <<"0", ".", "0", "6", "6", "6", "6", "6", "6", "6", "6", "6", "6", "6", "6", "6", "6", "6", "7">>>>,
     <<"0.1", "Divide", "0", <<"i", "n", "f">>>>,
     <<"0.1", "Divide", "0.1", <<"1">>>>,
     <<"0.1", "Multiply", "1", <<"0", ".", "1">>>>,
     <<"0.1", "Multiply", "1.5", <<"0", ".", "1", "5", "0", "0", "0", "0", "0", "0", "0", "0", "0", "0", "0", "0", "0", "0", "2">>>>,
     <<"0.1", "Multiply", "0", <<"0">>>>,
     <<"0.1", "Multiply", "0.1", <<"0", ".", "0", "1", "0", "0", "0", "0", "0", "0", "0", "0", "0", "0", "0", "0", "0", "0", "0", "2">>>>,
     <<"0.1", "Greater", "1", <<"f", "a", "l", "s", "e">>>>,
     <<"0.1", "Greater", "1.5", <<"f", "a", "l", "s", "e">>>>,
     <<"0.1", "Greater", "0", <<"t", "r", "u", "e">>>>,
     <<"0.1", "Greater", "0.1", <<"f", "a", "l", "s", "e">>>>,
     <<"0.1", "GreaterEqual", "1", <<"f", "a", "l", "s", "e">>>>,
     <<"0.1", "GreaterEqual", "1.5", <<"f", "a", "l", "s", "e">>>>,
     <<"0.1", "GreaterEqual", "0", <<"t", "r", "u", "e">>>>,
     <<"0.1", "GreaterEqual", "0.1", <<"t", "r", "u", "e">>>>,
     <<"0.1", "Less", "1", <<"t", "r", "u", "e">>>>,
     <<"0.1", "Less", "1.5", <<"t", "r", "u", "e">>>>,
     <<"0.1", "Less", "0", <<"f", "a", "l", "s", "e">>>>,
     <<"0.1", "Less", "0.1", <<"f", "a", "l", "s", "e">>>>,
     <<"0.1", "LessEqual", "1", <<"t", "r", "u", "e">>>>,
     <<"0.1", "LessEqual", "1.5", <<"t", "r", "u", "e">>>>,
     <<"0.1", "LessEqual", "0", <<"f", "a", "l", "s", "e">>>>,
     <<"0.1", "LessEqual", "0.1", <<"t", "r", "u", "e">>>>,
     <<"2^1023", "Minus", "-2^1023", <<"i", "n", "f">>>>,
     <<"-2^1023", "Minus", "2^1023", <<"-", "i", "n", "f">>>>,
     <<"2^1023", "Minus", "2^1023", <<"0">>>>,
     <<"max", "Minus", "max", <<"0">>>>,
     <<"0", "Minus", "0.5", <<"-", "0", ".", "5">>>>,
     <<"-0.5", "Minus", "-0.5", <<"0">>>>,
     <<"2^1023", "Multiply", "2", <<"i", "n", "f">>>>,
     <<"-2^1023", "Multiply", "2", <<"-", "i", "n", "f">>>>,
     <<"2", "Multiply", "2^1023", <<"i", "n", "f">>>>,
     <<"max", "Multiply", "max", <<"i", "n", "f">>>>,
     <<"2^512", "Multiply", "2^512", <<"i", "n", "f">>>>,
     <<"2^-1074", "Multiply", "0.5", <<"0">>>>,
     <<"2^-1074", "Multiply", "-0.5", <<"-", "0">>>>,
     <<"2^1023", "Multiply", "2^-1074", <<"0", ".", "0", "0", "0", "0", "0", "0", "0", "0", "0", "0", "0", "0", "0", "0", "0", "4", "4", "4", "0", "8", "9", "2", "0", "9", "8", "5", "0", "0", "6", "2", "6">>>>,
     <<"-0.5", "Multiply", "0", <<"-", "0">>>>,
     <<"-2^1023", "Multiply", "-2^1023", <<"i", "n", "f">>>>,
     <<"2^1023", "Divide", "0.5", <<"i", "n", "f">>>>,
     <<"-2^1023", "Divide", "0.5", <<"-", "i", "n", "f">>>>,
     <<"2^-1074", "Divide", "2", <<"0">>>>,
     <<"2^1023", "Divide", "2^1023", <<"1">>>>,
     <<"max", "Divide", "2^-1074", <<"i", "n", "f">>>>,
     <<"1", "Divide", "2^-1074", <<"i", "n", "f">>>>,
     <<"2^-1074", "Divide", "2^1023", <<"0">>>>,
     <<"0", "Divide", "-0.5", <<"-", "0">>>>,
     <<"-0.5", "Divide", "0", <<"-", "i", "n", "f">>>>,
     <<"2^-1074", "Divide", "2^-1074", <<"1">>>>,
     <<"2^512", "Divide", "2^-1074", <<"i", "n", "f">>>>,
     <<"2^1023", "Greater", "max", <<"f", "a", "l", "s", "e">>>>,
     <<"2^1023", "GreaterEqual", "max", <<"f", "a", "l", "s", "e">>>>,
     <<"2^1023", "Less", "max", <<"t", "r", "u", "e">>>>,
     <<"2^1023", "LessEqual", "max", <<"t", "r", "u", "e">>>>,
     <<"max", "Greater", "2^1023", <<"t", "r", "u", "e">>>>,
     <<"max", "GreaterEqual", "2^1023", <<"t", "r", "u", "e">>>>,
     <<"max", "Less", "2^1023", <<"f", "a", "l", "s", "e">>>>,
     <<"max", "LessEqual", "2^1023", <<"f", "a", "l", "s", "e">>>>,
     <<"2^-1074", "Greater", "0", <<"t", "r", "u", "e">>>>,
     <<"2^-1074", "GreaterEqual", "0", <<"t", "r", "u", "e">>>>,
     <<"2^-1074", "Less", "0", <<"f", "a", "l", "s", "e">>>>,
     <<"2^-1074", "LessEqual", "0", <<"f", "a", "l", "s", "e">>>>,
     <<"-2^1023", "Greater", "2^-1074", <<"f", "a", "l", "s", "e">>>>,
     <<"-2^1023", "GreaterEqual", "2^-1074", <<"f", "a", "l", "s", "e">>>>,
     <<"-2^1023", "Less", "2^-1074", <<"t", "r", "u", "e">>>>,
     <<"-2^1023", "LessEqual", "2^-1074", <<"t", "r", "u", "e">>>>,
     <<"-0.5", "Greater", "0.5", <<"f", "a", "l", "s", "e">>>>,
     <<"-0.5", "GreaterEqual", "0.5", <<"f", "a", "l", "s", "e">>>>,
     <<"-0.5", "Less", "0.5", <<"t", "r", "u", "e">>>>,
     <<"-0.5", "LessEqual", "0.5", <<"t", "r", "u", "e">>>>,
     <<"max", "Greater", "max", <<"f", "a", "l", "s", "e">>>>,
     <<"max", "GreaterEqual", "max", <<"t", "r", "u", "e">>>>,
     <<"max", "Less", "max", <<"f", "a", "l", "s", "e">>>>,
     <<"max", "LessEqual", "max", <<"t", "r", "u", "e">>>>}

\* the Number of every name
Operands == [name \in NumberNames |-> Operand(name)]

PrintSum(a, b) == PrintStatement(Plus(Literal(a), Literal(b)))
PrintOp(a, op, b) == PrintStatement(NumericExpr(a, op, b))

\* In what follows v is Operands.
\* $< "a" + 1   $< 0.1 + 0.2   $< 2^1023 + 2^1023
SumsProgram(v) ==
    <<PrintSum(StrV(<<"a">>), NumV(v["1"])),
      PrintSum(NumV(v["0.1"]), NumV(v["0.2"])),
      PrintSum(NumV(v["2^1023"]), NumV(v["2^1023"]))>>

\* $< 1 - "a"   $< 2^1023 * 2   $< 1.5 - 1
ProductsProgram(v) ==
    <<PrintOp(NumV(v["1"]), "Minus", StrV(<<"a">>)),
      PrintOp(NumV(v["2^1023"]), "Multiply", NumV(v["2"])),
      PrintOp(NumV(v["1.5"]), "Minus", NumV(v["1"]))>>

\* the worked cases as programs
CasePrograms(v) ==
    {<<PrintSum(NumV(v[c[1]]), NumV(v[c[2]]))>> : c \in PlusCases}
    \cup {<<PrintOp(NumV(v[c[1]]), c[2], NumV(v[c[3]]))>> : c \in NumericCases}
    \cup {SumsProgram(v), ProductsProgram(v)}

\* the text the worked additions give for a + b
SumText(v, a, b, text) == \E c \in PlusCases : a = v[c[1]] /\ b = v[c[2]] /\ text = c[3]

\* the text the worked cases give for a op b
ResultText(v, a, op, b, text) ==
    \E c \in NumericCases : a = v[c[1]] /\ op = c[2] /\ b = v[c[3]] /\ text = c[4]

Programs ==
    SeqsUpTo(StmtPool, MaxStmts) \cup FocusPrograms \cup AssignPrograms \cup NumericPrograms
    \cup EqPrograms \cup CasePrograms(Operands)

InitRun ==
    /\ phase = "interp"
    /\ lexer = LexerNew(<<>>)
    /\ parser = ParserNew(<<>>)
    /\ parsed = <<>>
    /\ interp = InterpreterNew
    /\ program \in {[stmts |-> p, ip |-> 1] : p \in Programs}
    /\ out = <<>>
    /\ diags = <<>>
    /\ events = <<>>

NextRun == InterpretStep \/ InterpretFinish

SpecRun == InitRun /\ [][NextRun]_vars

----------------------------------------------------------------------------
(* The pipeline: a source text is lexed, parsed and interpreted.  Its      *)
(* source texts are lines joined by newlines.                              *)

WellFormedLines ==
    {[text |-> <<"$", "<", "1">>, prints |-> <<<<"1">>>>],
     [text |-> <<"o", "f", "f", "e", "r", "i", "n", "g", " ", "a", "=", "1">>,
      prints |-> <<>>],
     [text |-> <<"$", "<", "1", "+", "1">>, prints |-> <<<<"2">>>>]}

MalformedLines ==
    {<<"+", "1">>, <<"1", " ", "1">>, <<"o", "f", "f", "e", "r", "i", "n", "g", " ", "1">>,
     <<")">>, <<"$", "<">>, <<"1", "+", "+", "1">>}

PipeLines == {w.text : w \in WellFormedLines} \cup MalformedLines

RECURSIVE JoinLines(_)
JoinLines(ls) ==
    IF Len(ls) = 0 THEN <<>>
    ELSE IF Len(ls) = 1 THEN ls[1]
    ELSE ls[1] \o <<"\n">> \o JoinLines(Tail(ls))

\* the source spellings of the operators handle_equality, handle_comparison,
\* handle_term and handle_factor accept
OperatorTexts ==
    {<<"i", "s">>, <<"n", "o", "t">>, <<"<">>, <<"<", "=">>, <<">">>, <<">", "=">>,
     <<"+">>, <<"-">>, <<"*">>, <<"/">>}

\* $<1 op 1 for each of them
OperatorSources == {<<"$", "<", "1", " ">> \o op \o <<" ", "1">> : op \in OperatorTexts}

Init ==
    /\ phase = "lex"
    /\ lexer \in {[LexerNew(source) EXCEPT !.build = b] :
                    source \in {JoinLines(ls) : ls \in SeqsUpTo(PipeLines, MaxLines)}
                                  \cup OperatorSources,
                    b \in Builds}
    /\ parser = ParserNew(<<>>)
    /\ InitRest

Next ==
    \/ LexToken
    \/ LexFinish
    \/ ParseStep
    \/ ParseFinish
    \/ InterpretStep
    \/ InterpretFinish

Spec == Init /\ [][Next]_vars

----------------------------------------------------------------------------
(* Properties *)

\* the top-level statement interpret() is about to execute
Cur == program.stmts[program.ip]

\* a step of the loop of interpret()
Stepped ==
    /\ phase = "interp"
    /\ program.ip <= Len(program.stmts)
    /\ program'.ip = program.ip + 1

\* the interpreter's state before that step
Pre == [env |-> interp.env, frames |-> interp.frames, out |-> out, log |-> <<>>]

SameVal(a, b) == a.tag = b.tag /\ (a.tag = "None" \/ a.v = b.v)

Names == {<<"x">>, <<"y">>}

\* name resolves alike from the current frames of I and of J
SameBinding(I, J, name) ==
    LET f == Lookup(I.frames, I.env, name)
        g == Lookup(J.frames, J.env, name)
    IN  /\ (f = 0) = (g = 0)
        /\ f # 0 => SameVal(I.frames[f].values[name], J.frames[g].values[name])

\* the node holds an assignment or a postfix operator
RECURSIVE Writes(_)
Writes(node) ==
    CASE node.kind \in {"Assign", "Postfix"} -> TRUE
      [] node.kind \in {"Literal", "Variable"} -> FALSE
      [] node.kind = "Grouping" -> Writes(node.expr)
      [] node.kind = "Unary" -> Writes(node.right)
      [] node.kind \in {"Binary", "Logical"} -> Writes(node.left) \/ Writes(node.right)
      [] node.kind \in {"Expression", "Print"} -> Writes(node.expr)
      [] node.kind = "Var" ->
            IF node.initializer = NoneOpt THEN FALSE ELSE Writes(node.initializer[1])
      [] node.kind = "Block" ->
            \E i \in 1..Len(node.statements) : Writes(node.statements[i])
      [] node.kind = "If" ->
            \/ Writes(node.condition)
            \/ Writes(node.then_branch)
            \/ (IF node.else_branch = NoneOpt THEN FALSE ELSE Writes(node.else_branch[1]))
      [] node.kind = "While" -> Writes(node.condition) \/ Writes(node.body)

Text1 == <<"1">>
Text2 == <<"2">>

\* C1: when lex() returns, the tokens end with exactly one StatementEnd and then
\* exactly one EOF: the token before that StatementEnd is no StatementEnd, and
\* no EOF comes earlier.
C1_EndsWithOneStatementEndThenEOF ==
    phase = "parse" =>
        LET t == lexer.tokens
            n == Len(t)
        IN  /\ n >= 2
            /\ t[n].token_type = "EOF"
            /\ t[n - 1].token_type = "StatementEnd"
            /\ \A i \in 1..(n - 1) : t[i].token_type # "EOF"
            /\ n >= 3 => t[n - 2].token_type # "StatementEnd"

\* C2: parse() never loops forever, never panics and never takes a token from
\* the exhausted token stream, whatever tokens precede StatementEnd, EOF.
C2_ParseTerminatesWithoutPanic ==
    /\ phase # "diverged"
    /\ phase # "panic"
    /\ ~Exhausted(parser)

\* C3: a source of one malformed line followed by one well-formed line runs to
\* the end, reports exactly one diagnostic, turns the malformed statement into
\* the no-op, and prints what the well-formed line prints alone.
C3_OneDiagnosticThenNextStatementRuns ==
    \A m \in MalformedLines : \A w \in WellFormedLines :
        lexer.source = m \o <<"\n">> \o w.text =>
            /\ phase \notin {"panic", "diverged"}
            /\ phase = "done" =>
                /\ Len(diags) = 1
                /\ Len(program.stmts) = 2
                /\ program.stmts[1] = NoOpStatement
                /\ out = w.prints

\* C4: a block that only declares and prints leaves every name resolving as
\* before it (bound or not, and to the same value); the shadowing program
\* prints 2 inside the block and 1 after it, and a name declared only inside
\* a block is undefined after it.
C4_BlockScopeDoesNotLeak ==
    /\ [](phase = "done" /\ program.stmts = <<DeclX, ShadowX, PrintX>>
            => out = <<Text2, Text1>>)
    /\ [](phase = "done" /\ program.stmts = <<LocalY, PrintY>>
            => out = <<Text2>> /\ Len(diags) = 1)
    /\ [][Stepped /\ Cur.kind = "Block" /\ ~Writes(Cur)
            => /\ interp'.env = interp.env
               /\ \A name \in Names : SameBinding(interp, interp', name)]_vars

C4_Witness ==
    /\ phase = "done"
    /\ program.stmts = <<DeclX, ShadowX, PrintX>>
    /\ out = <<Text2, Text1>>

\* what interpret() must leave behind: every statement executed in order, each
\* on the state its predecessors left, one report per failed statement
RECURSIVE RefRun(_, _, _, _)
RefRun(stmts, i, S, failed) ==
    IF i > Len(stmts) THEN [S |-> S, failed |-> failed]
    ELSE LET r == Ev("execute", stmts[i], 0, S)
         IN  RefRun(stmts, i + 1, r.S, IF r.st = "err" THEN failed + 1 ELSE failed)

\* C5: a runtime error of a top-level statement is reported once and every
\* later top-level statement still executes, in order, on the state left by
\* the statements before it.
C5_PerStatementErrorIsolation ==
    phase = "done" =>
        LET ref == RefRun(program.stmts, 1,
                          [env |-> 1, frames |-> InterpreterNew.frames,
                           out |-> <<>>, log |-> <<>>], 0)
        IN  /\ program.ip = Len(program.stmts) + 1
            /\ out = ref.S.out
            /\ interp.frames = ref.S.frames
            /\ Len(diags) = ref.failed

C5_Witness ==
    /\ phase = "done"
    /\ program.stmts = <<DeclX, PrintY, PrintX>>
    /\ Len(diags) = 1
    /\ out = <<Text1>>

\* C6: when a statement inside a block fails, the failure is reported and no
\* later statement of the top-level statement is begun.
C6_NestedErrorAbortsStatement ==
    [][Stepped /\ HasFailed(events')
        => /\ Len(diags') = Len(diags) + 1
           /\ \A i, j \in DOMAIN events' :
                 (i < j /\ events'[i].ev = "fail") => events'[j].ev # "begin"]_vars

\* the log from entry i on, read with the stack of the blocks entered and not
\* yet left: a block's frame encloses the frame current at entry, statements
\* begin in the innermost block's frame, and an exit restores the frame
\* current at entry
RECURSIVE WellNested(_, _, _, _)
WellNested(log, i, stack, base) ==
    LET cur == IF stack = <<>> THEN base ELSE Last(stack).env
    IN  IF i > Len(log) THEN stack = <<>>
        ELSE CASE log[i].ev = "enter" ->
                    /\ log[i].previous = cur
                    /\ log[i].enclosing = cur
                    /\ WellNested(log, i + 1, Append(stack, log[i]), base)
               [] log[i].ev \in {"begin", "fail"} ->
                    /\ stack # <<>>
                    /\ log[i].env = cur
                    /\ WellNested(log, i + 1, stack, base)
               [] log[i].ev = "exit" ->
                    /\ stack # <<>>
                    /\ log[i].env = Last(stack).previous
                    /\ WellNested(log, i + 1, SubSeq(stack, 1, Len(stack) - 1), base)

Enters(log) == {i \in DOMAIN log : log[i].ev = "enter"}

\* C7: entering a block creates one frame, enclosed by the frame current at
\* entry; leaving it restores that frame, also after errors; after every
\* top-level statement the current frame is the global frame.
C7_FrameRestored ==
    phase \in {"interp", "done"} =>
        /\ interp.env = 1
        /\ WellNested(events, 1, <<>>, 1)
        /\ \A i, j \in Enters(events) : i # j => events[i].env # events[j].env

C7_Witness ==
    /\ phase = "interp"
    /\ program.ip > 1
    /\ program.stmts[program.ip - 1] = FailNested
    /\ HasFailed(events)
    /\ Cardinality(Enters(events)) = 2
    /\ interp.env = 1

Truthy(val) == ~(val.tag = "None" \/ (val.tag = "Boolean" /\ val.v = FALSE))

\* C8: printing a Logical node: `or` with a truthy left operand and `and`
\* with a falsy one give the left operand's own value and do nothing of the
\* right operand; otherwise the result is the right operand's own value.
C8_ShortCircuit ==
    [][Stepped /\ Cur.kind = "Print" /\ Cur.expr.kind = "Logical"
        => LET e == Cur.expr
               l == Ev("evaluate", e.left, 0, Pre)
               r == Ev("evaluate", e.right, 0, l.S)
               short == IF e.operator.token_type = "Or" THEN Truthy(l.val)
                        ELSE ~Truthy(l.val)
           IN  l.st = "ok" =>
                 IF short
                 THEN /\ out' = Append(out, Display(l.val))
                      /\ interp'.frames = interp.frames
                      /\ diags' = diags
                 ELSE IF r.st = "ok"
                 THEN /\ out' = Append(out, Display(r.val))
                      /\ interp'.frames = r.S.frames
                      /\ diags' = diags
                 ELSE /\ out' = out
                      /\ Len(diags') = Len(diags) + 1]_vars

\* true or x++ has printed true and left x alone
C8_Witness ==
    /\ phase = "done"
    /\ program.stmts = <<VarStatement(X, Some(Num(1))),
                         PrintStatement(Or(Literal(BoolV(TRUE)), Incr(Variable(X)))),
                         PrintX>>
    /\ out = <<BoolText(TRUE), Text1>>
    /\ diags = <<>>

\* C9: printing a + b for two literal values: a String left operand gives the
\* left text followed by the right operand's rendering; two Numbers give their
\* sum, which is the text the worked additions list for them; everything
\* else is a runtime error.
C9_PlusByLeftOperand ==
    [][Stepped /\ Cur.kind = "Print" /\ Cur.expr.kind = "Binary"
         /\ Cur.expr.operator.token_type = "Plus"
         /\ Cur.expr.left.kind = "Literal" /\ Cur.expr.right.kind = "Literal"
        => LET a == Cur.expr.left.value
               b == Cur.expr.right.value
           IN  IF a.tag = "String"
               THEN /\ out' = Append(out, a.v \o Display(b))
                    /\ (b = NumV(IntQ(1)) /\ a.v = <<"a">>) => Last(out') = <<"a", "1">>
                    /\ diags' = diags
               ELSE IF a.tag = "Number" /\ b.tag = "Number"
               THEN /\ Len(out') = Len(out) + 1
                    /\ SubSeq(out', 1, Len(out)) = out
                    /\ SumText(Operands, a.v, b.v, Last(out'))
                    /\ diags' = diags
               ELSE /\ out' = out
                    /\ Len(diags') = Len(diags) + 1]_vars

\* "a" + 1 has printed a1, 0.1 + 0.2 has printed 0.30000000000000004 and
\* 2^1023 + 2^1023 has printed inf
C9_Witness ==
    /\ phase = "done"
    /\ program.stmts = SumsProgram(Operands)
    /\ out = <<<<"a", "1">>,
               <<"0", ".", "3", "0", "0", "0", "0", "0", "0", "0", "0", "0", "0",
                 "0", "0", "0", "0", "0", "4">>,
               <<"i", "n", "f">>>>
    /\ diags = <<>>

\* the frames with name rebound to value in frame f
Rebound(frames, f, name, value) ==
    [i \in DOMAIN frames |->
        IF i = f
        THEN [frames[i] EXCEPT !.values =
                [k \in DOMAIN frames[i].values |->
                    IF k = name THEN value ELSE frames[i].values[k]]]
        ELSE frames[i]]

\* the f64 one above or one below q
Bumped(q, op) == IF op = "PlusPlus" THEN QAdd(q, IntQ(1)) ELSE QSub(q, IntQ(1))

\* C10: printing a Postfix node whose target is a Variable bound to a Number
\* rebinds the variable, in the frame that holds it, to the value plus or
\* minus one and prints that new value; any other target or binding is a
\* runtime error that changes no binding.  Inside a block the enclosing
\* frame's binding is the one rebound.
C10_PostfixReturnsNewValue ==
    /\ [][Stepped /\ Cur.kind = "Print" /\ Cur.expr.kind = "Postfix"
            => LET t == Cur.expr.left
                   op == Cur.expr.operator.token_type
                   f == IF t.kind = "Variable"
                        THEN Lookup(interp.frames, interp.env, t.name.lexeme) ELSE 0
                   old == interp.frames[f].values[t.name.lexeme]
               IN  IF f # 0 /\ old.tag = "Number"
                   THEN /\ interp'.frames =
                              Rebound(interp.frames, f, t.name.lexeme, NumV(Bumped(old.v, op)))
                        /\ out' = Append(out, Display(NumV(Bumped(old.v, op))))
                        /\ diags' = diags
                   ELSE /\ interp'.frames = interp.frames
                        /\ out' = out
                        /\ Len(diags') = Len(diags) + 1]_vars
    /\ [][Stepped /\ Cur = IncrInBlock
            => LET f == Lookup(interp.frames, interp.env, <<"x">>)
                   old == interp.frames[f].values[<<"x">>]
                   inner == Len(interp'.frames)
               IN  IF f # 0 /\ old.tag = "Number"
                   THEN /\ inner = Len(interp.frames) + 1
                        /\ DOMAIN interp'.frames[inner].values = {<<"y">>}
                        /\ SubSeq(interp'.frames, 1, inner - 1) =
                              Rebound(interp.frames, f, <<"x">>, NumV(Bumped(old.v, "PlusPlus")))
                        /\ out' = Append(out, Display(NumV(Bumped(old.v, "PlusPlus"))))
                   ELSE /\ SubSeq(interp'.frames, 1, inner - 1) = interp.frames
                        /\ out' = out]_vars

\* offering x = 1, then x++ printed 2, and x is 2
C10_Witness ==
    /\ phase = "done"
    /\ program.stmts = <<DeclX, PrintStatement(Incr(Variable(X))), PrintX>>
    /\ out = <<Text2, Text2>>

\* C11: printing an Assign node whose target is bound in no frame of the
\* chain is an undefined-variable error that leaves every frame as it was;
\* when the target is bound, the nearest frame binding it is rebound in place,
\* no frame gains a binding, and the assigned value is what is printed.
\* Inside a block that declares one name, the block's frame keeps exactly
\* that one binding.
C11_AssignNeverDeclares ==
    /\ [][Stepped /\ Cur.kind = "Print" /\ Cur.expr.kind = "Assign"
            /\ Cur.expr.value.kind = "Literal"
            => LET name == Cur.expr.name.lexeme
                   v == Cur.expr.value.value
                   f == Lookup(interp.frames, interp.env, name)
               IN  IF f = 0
                   THEN /\ interp'.frames = interp.frames
                        /\ out' = out
                        /\ diags' = Append(diags, Report(0, "Undefined variable."))
                   ELSE /\ interp'.frames = Rebound(interp.frames, f, name, v)
                        /\ out' = Append(out, Display(v))
                        /\ diags' = diags]_vars
    /\ [][Stepped /\ Cur.kind = "Block" /\ Len(Cur.statements) = 2
            /\ Cur.statements[1].kind = "Var"
            /\ Cur.statements[1].initializer = Some(Literal(NoneV))
            /\ Cur.statements[2].kind = "Print"
            /\ Cur.statements[2].expr.kind = "Assign"
            /\ Cur.statements[2].expr.value.kind = "Literal"
            => LET decl == Cur.statements[1].name.lexeme
                   name == Cur.statements[2].expr.name.lexeme
                   v == Cur.statements[2].expr.value.value
                   inner == Len(interp.frames) + 1
                   G == Append(interp.frames,
                               [values |-> (decl :> NoneV), enclosing |-> interp.env])
                   f == Lookup(G, inner, name)
               IN  IF f = 0
                   THEN /\ interp'.frames = G
                        /\ out' = out
                   ELSE /\ interp'.frames = Rebound(G, f, name, v)
                        /\ DOMAIN interp'.frames[inner].values = {decl}
                        /\ out' = Append(out, Display(v))]_vars

\* offering x = 1, then a block declaring y has printed x = 2: the global
\* frame holds x = 2 and the block's frame holds y alone
C11_Witness ==
    /\ phase = "done"
    /\ program.stmts = <<DeclX, AssignInBlock(Y, NoneV, X, NumV(IntQ(2))), PrintX>>
    /\ out = <<Text2, Text2>>
    /\ Len(interp.frames) = 2
    /\ DOMAIN interp.frames[2].values = {<<"y">>}
    /\ interp.frames[1].values[<<"x">>] = NumV(IntQ(2))

\* C12: a well-formed if or while statement (keyword, condition, block
\* bodies, an optional else block) is parsed into one If or While statement
\* and no diagnostic is reported.
C12_IfWhileStatementsParse ==
    parser.tokens \in {ParserInput(toks) : toks \in IfWhileTokens} =>
        /\ diags = <<>>
        /\ phase \notin {"panic", "diverged"}
        /\ phase = "interp" =>
            /\ Len(program.stmts) = 1
            /\ program.stmts[1].kind =
                  (IF parser.tokens[1].token_type = "If" THEN "If" ELSE "While")

\* C13: a and b, a or b parse into a Logical node and a++, a-- into a
\* Postfix node, as an expression statement or printed, and no diagnostic is
\* reported.
C13_LogicalAndPostfixLevelsParse ==
    /\ parser.tokens \in {ParserInput(toks) : toks \in LogicalTokens \cup PostfixTokens} =>
        /\ diags = <<>>
        /\ phase \notin {"panic", "diverged"}
    /\ (phase = "interp"
           /\ parser.tokens \in {ParserInput(toks) : toks \in LogicalTokens}) =>
        /\ Len(program.stmts) = 1
        /\ program.stmts[1].expr.kind = "Logical"
    /\ (phase = "interp"
           /\ parser.tokens \in {ParserInput(toks) : toks \in PostfixTokens}) =>
        /\ Len(program.stmts) = 1
        /\ program.stmts[1].expr.kind = "Postfix"

\* how tightly an operator binds: equality 1, comparison 2, term 3, factor 4
Level(kind) ==
    CASE kind \in {"Is", "Not"} -> 1
      [] kind \in {"Greater", "GreaterEqual", "Less", "LessEqual"} -> 2
      [] kind \in {"Plus", "Minus"} -> 3
      [] kind \in {"Multiply", "Divide"} -> 4

\* identifiers at the odd places, binary operators at the even ones
IsChain(toks) ==
    /\ Len(toks) % 2 = 1
    /\ \A i \in 1..Len(toks) :
          IF i % 2 = 1 THEN toks[i].token_type = "Identifier"
          ELSE toks[i].token_type \in BinaryOps

\* the tree of a chain: it splits at the last of its loosest operators
RECURSIVE RefTree(_)
RefTree(toks) ==
    IF Len(toks) = 1 THEN Variable(toks[1])
    ELSE LET ops == {i \in 1..Len(toks) : i % 2 = 0}
             loosest == {i \in ops :
                            \A j \in ops : Level(toks[i].token_type) <= Level(toks[j].token_type)}
             k == CHOOSE i \in loosest : \A j \in loosest : j <= i
         IN  Binary(RefTree(SubSeq(toks, 1, k - 1)), toks[k],
                    RefTree(SubSeq(toks, k + 1, Len(toks))))

\* the tokens before the two sentinels
Body(tokens) == SubSeq(tokens, 1, Len(tokens) - 2)

\* C14: a chain of identifiers joined by operators of the equality,
\* comparison, term and factor levels parses, without a diagnostic, into the
\* one expression statement whose tree binds factor tighter than term, term
\* tighter than comparison, comparison tighter than equality, and groups
\* operators of one level to the left.
C14_PrecedenceAndLeftAssociativity ==
    (Len(parser.tokens) >= 3 /\ IsChain(Body(parser.tokens))) =>
        /\ diags = <<>>
        /\ phase \notin {"panic", "diverged"}
        /\ phase = "interp" =>
              program.stmts = <<ExpressionStatement(RefTree(Body(parser.tokens)))>>

\* a - b - c is (a - b) - c and a + b * c is a + (b * c)
C14_Witness ==
    /\ phase = "interp"
    /\ \/ /\ Body(parser.tokens) = Chain(<<"Minus", "Minus">>)
          /\ program.stmts =
                <<ExpressionStatement(
                    Binary(Binary(Variable(Ident("a")), TokenOf("Minus"), Variable(Ident("b"))),
                           TokenOf("Minus"), Variable(Ident("c"))))>>
       \/ /\ Body(parser.tokens) = Chain(<<"Plus", "Multiply">>)
          /\ program.stmts =
                <<ExpressionStatement(
                    Binary(Variable(Ident("a")), TokenOf("Plus"),
                           Binary(Variable(Ident("b")), TokenOf("Multiply"),
                                  Variable(Ident("c")))))>>

\* the declaration or statement handle_declaration tries before it recovers
Attempt(P) ==
    IF match_next(P, {"Offering"}) THEN Call("handle_var_declaration", <<>>, advance(P))
    ELSE Call("handle_statement", <<>>, P)

\* the number of tokens taken once the cursor is just past the first
\* StatementEnd at or after the token in place pos + 1, or at EOF without one
PastNextEnd(tokens, pos) ==
    LET ends == {j \in (pos + 1)..Len(tokens) : tokens[j].token_type = "StatementEnd"}
    IN  IF ends = {} THEN Len(tokens) - 1
        ELSE CHOOSE j \in ends : \A k \in ends : j <= k

\* C15: when a top-level declaration or statement fails, the recovery ends
\* and leaves the cursor just past the next StatementEnd at or after the
\* failing token (at EOF when there is none), however many tokens lie between.
C15_SynchronizeStopsPastNextStatementEnd ==
    [][(phase = "parse" /\ ~Parser_at_end(parser) /\ Attempt(WithRep(parser)).st = "err")
        => /\ phase' = "parse"
           /\ parser'.pos = PastNextEnd(parser.tokens, Attempt(WithRep(parser)).P.pos)
           /\ parsed' = Append(parsed, NoOpStatement)]_vars

\* the lexer is about to read a line break
AtNewline ==
    /\ phase = "lex"
    /\ lexer.current < Len(lexer.source)
    /\ lexer.source[lexer.current + 1] = "\n"

\* the kinds after which a line break ends a statement
CanEndStatement ==
    {"BraceClose", "ParenClose", "SquareClose", "True", "False", "Number", "String",
     "None", "End", "Identifier"}

\* C16: reading a line break with the ignore-newline flag false appends one
\* StatementEnd exactly when a token has been emitted and the last one is a
\* closing bracket, true, false, a number, a string, none, end or an
\* identifier; otherwise it appends nothing.
C16_NewlineEndsStatementAfterEnders ==
    [][(AtNewline /\ ~lexer.ignore_newline)
        => IF lexer.tokens # <<>> /\ Last(lexer.tokens).token_type \in CanEndStatement
           THEN /\ Len(lexer'.tokens) = Len(lexer.tokens) + 1
                /\ SubSeq(lexer'.tokens, 1, Len(lexer.tokens)) = lexer.tokens
                /\ Last(lexer'.tokens).token_type = "StatementEnd"
           ELSE lexer'.tokens = lexer.tokens]_vars

\* how many ( and [ among the tokens are not yet closed
RECURSIVE Depth(_)
Depth(tokens) ==
    IF tokens = <<>> THEN 0
    ELSE LET d == Depth(SubSeq(tokens, 1, Len(tokens) - 1))
             k == Last(tokens).token_type
         IN  IF k \in {"ParenOpen", "SquareOpen"} THEN d + 1
             ELSE IF k \in {"ParenClose", "SquareClose"} /\ d > 0 THEN d - 1
             ELSE d

\* how many ) and ] the source holds after place i
Closers(source, i) ==
    Cardinality({j \in (i + 1)..Len(source) : source[j] \in {")", "]"}})

\* C17: a line break read while some ( or [ is still open, each of them
\* closed later in the source, appends no token, at any nesting.
C17_NoStatementEndInsideBrackets ==
    [][(AtNewline /\ Depth(lexer.tokens) > 0
          /\ Closers(lexer.source, lexer.current + 1) >= Depth(lexer.tokens))
        => lexer'.tokens = lexer.tokens]_vars

\* C18: an assignment to something other than a bare Variable reports one
\* diagnostic per invalid target, consumes the = and the right-hand side, and
\* leaves the left-hand expression as the statement's expression, the
\* statement being produced as usual; assignments to Variables nest to the
\* right and report nothing.
C18_InvalidTargetIsReportedNotFatal ==
    \A c \in AssignCases :
        parser.tokens = ParserInput(c.toks) =>
            /\ phase \notin {"panic", "diverged"}
            /\ phase = "interp" =>
                /\ program.stmts = <<c.stmt>>
                /\ diags = c.diags

\* a + b = 1 has been parsed into the statement a + b, with one report
C18_Witness ==
    /\ phase = "interp"
    /\ Body(parser.tokens) =
          <<Ident("a"), TokenOf("Plus"), Ident("b"), TokenOf("Equal"), TokenOf("Number")>>
    /\ program.stmts =
          <<ExpressionStatement(Binary(Variable(Ident("a")), TokenOf("Plus"),
                                       Variable(Ident("b"))))>>
    /\ diags = <<InvalidTarget>>

\* C19: printing a op b for op one of - / * > >= < <= and literal operands:
\* unless both values are Numbers nothing is printed and one error is
\* reported at the operator's line; two Numbers print the text the worked
\* cases list for them, a number for - / * and true or false for the
\* comparisons.
C19_NumericOperatorsNeedNumbers ==
    [][Stepped /\ Cur.kind = "Print" /\ Cur.expr.kind = "Binary"
         /\ Cur.expr.operator.token_type \in NumericOps
         /\ Cur.expr.left.kind = "Literal" /\ Cur.expr.right.kind = "Literal"
        => LET a == Cur.expr.left.value
               b == Cur.expr.right.value
               op == Cur.expr.operator.token_type
               bools == {BoolText(TRUE), BoolText(FALSE)}
           IN  IF a.tag = "Number" /\ b.tag = "Number"
               THEN /\ diags' = diags
                    /\ Len(out') = Len(out) + 1
                    /\ SubSeq(out', 1, Len(out)) = out
                    /\ ResultText(Operands, a.v, op, b.v, Last(out'))
                    /\ (Last(out') \in bools) <=> (op \notin {"Minus", "Divide", "Multiply"})
               ELSE /\ out' = out
                    /\ Len(diags') = Len(diags) + 1
                    /\ Last(diags').line = Cur.expr.operator.line
                    /\ Ev("evaluate", Cur.expr, 0, Pre).st = "err"
                    /\ Ev("evaluate", Cur.expr, 0, Pre).err
                          = Some(RuntimeError(Cur.expr.operator, NumericArm(op)))]_vars

\* 1 - "a" has printed nothing and reported one error at line 2, then
\* 2^1023 * 2 has printed inf and 1.5 - 1 has printed 0.5
C19_Witness ==
    /\ phase = "done"
    /\ program.stmts = ProductsProgram(Operands)
    /\ out = <<<<"i", "n", "f">>, <<"0", ".", "5">>>>
    /\ Len(diags) = 1
    /\ diags[1].line = 2

\* the lexer is about to read a quote that no later quote closes
AtUnterminatedString ==
    /\ phase = "lex"
    /\ lexer.current < Len(lexer.source)
    /\ lexer.source[lexer.current + 1] = "\""
    /\ \A i \in (lexer.current + 2)..Len(lexer.source) : lexer.source[i] # "\""

\* the kinds of the tokens lexed so far
Kinds == [i \in 1..Len(lexer.tokens) |-> lexer.tokens[i].token_type]

\* C20: reading a quote that is never closed reports exactly one diagnostic,
\* adds no token, keeps the tokens before it and consumes the rest of the
\* input; lex() then still appends StatementEnd and EOF.
C20_UnterminatedStringIsDropped ==
    /\ [][AtUnterminatedString
            => /\ phase' = "lex"
               /\ lexer'.tokens = lexer.tokens
               /\ Len(diags') = Len(diags) + 1
               /\ SubSeq(diags', 1, Len(diags)) = diags
               /\ Last(diags').msg = "Unterminated string."
               /\ at_end(lexer')]_vars
    /\ [][phase = "lex" /\ at_end(lexer)
            => /\ phase' = "parse"
               /\ diags' = diags
               /\ Len(lexer'.tokens) = Len(lexer.tokens) + 2
               /\ SubSeq(lexer'.tokens, 1, Len(lexer.tokens)) = lexer.tokens
               /\ lexer'.tokens[Len(lexer.tokens) + 1].token_type = "StatementEnd"
               /\ lexer'.tokens[Len(lexer.tokens) + 2].token_type = "EOF"]_vars
    /\ [](phase = "parse" =>
            /\ lexer.source = <<"1", " ", "\"", "a", "b">>
                  => Kinds = <<"Number", "StatementEnd", "EOF">> /\ Len(diags) = 1
            /\ lexer.source = <<"\"", "a", "\"", "\n", "\"", "b">>
                  => /\ Kinds = <<"String", "StatementEnd", "StatementEnd", "EOF">>
                     /\ Len(diags) = 1
            /\ lexer.source = <<"1", "\n", "\"", "a", "\n", "b">>
                  => /\ Kinds = <<"Number", "StatementEnd", "StatementEnd", "EOF">>
                     /\ diags = <<Report(2, "Unterminated string.")>>)

\* printing l is r, for operands that evaluate without error
PrintsIs ==
    /\ Stepped
    /\ Cur.kind = "Print" /\ Cur.expr.kind = "Binary"
    /\ Cur.expr.operator.token_type = "Is"
    /\ Ev("evaluate", Cur.expr.left, 0, Pre).st = "ok"
    /\ Ev("evaluate", Cur.expr.right, 0, Pre).st = "ok"

\* C21: l is r never reports an error and prints true exactly when the two
\* values have the same tag and the same payload; none is none prints true.
C21_IsEqualityIsStructural ==
    [][PrintsIs
        => LET a == Ev("evaluate", Cur.expr.left, 0, Pre).val
               b == Ev("evaluate", Cur.expr.right, 0, Pre).val
           IN  /\ diags' = diags
               /\ out' = Append(out, BoolText(a.tag = b.tag /\ a = b))
               /\ (a = NoneV /\ b = NoneV) => Last(out') = BoolText(TRUE)]_vars

\* C22: no statement the parser produced fails in eval_binary's fallback arm:
\* executing it never gives "Unknown operator in binary expression.".
C22_ParsedBinaryOperatorsAreHandled ==
    (phase = "interp" /\ program.ip <= Len(program.stmts))
        => LET r == Ev("execute", Cur, 0, Pre)
           IN  r.st = "err" => r.err[1].msg # "Unknown operator in binary expression."

\* the parser with its cursor moved to the token in place pos + 1
ParserAt(pos) ==
    [tokens |-> parser.tokens, pos |-> pos,
     last_token |-> IF pos = 0 THEN NoneOpt ELSE Some(parser.tokens[pos]), rep |-> <<>>]

\* C23: handle_declaration, called at any token before EOF (so at the top
\* level and wherever a block calls it), never yields Err, so parse() never
\* takes its Err arm; a block with a failing inner statement whose recovery
\* ends parses to the block with a no-op in that statement's place and one
\* diagnostic.
C23_HandleDeclarationNeverErr ==
    /\ phase = "parse" =>
          \A pos \in 0..(Len(parser.tokens) - 2) :
              Call("handle_declaration", <<>>, ParserAt(pos)).st \in {"ok", "panic", "hang"}
    /\ \A c \in BlockCases :
          parser.tokens = ParserInput(c.toks) =>
              /\ phase \notin {"panic", "diverged"}
              /\ phase = "interp" => program.stmts = <<c.stmt>> /\ Len(diags) = 1

\* { { 1 1 ; } ; $<1 ; } has been parsed: the inner block holds the no-op
C23_Witness ==
    /\ phase = "interp"
    /\ Len(parser.tokens) = 13
    /\ Len(diags) = 1
    /\ program.stmts =
          <<BlockStatement(<<BlockStatement(<<NoOpStatement>>),
                             PrintStatement(Literal(NumV(IntQ(1))))>>)>>

=============================================================================
